---- MODULE Spec2Model ----
(***************************************************************************)
(* Model of the photobooth server: the socket hub's per-connection capture *)
(* sequencing (server/index.js) and the printer controller's validation,   *)
(* queue and cleanup (PrinterController).                                  *)
(***************************************************************************)
EXTENDS Integers, Sequences, FiniteSets, TLC

\* ------------------------------------------------------------------ bounds
MaxLog == 6
MaxCalls == 3
MaxEvents == 4
MaxProcs == 2
MaxFrames == 1
MaxPending == 1
MaxCaptures == 1
MaxPrints == 2
MaxSession == 6
MaxAdds == 10
MaxTries == 2
MaxChunk == 2
MaxExtracted == 2
HdmiBufferCap == 4
MaxReceived == 5
MaxLoops == 3
MaxLiveFrames == 3

\* the connections of the model: two sockets
Conns == {"A", "B"}

\* ------------------------------------------------------------ hub: state
VARIABLES
  connected,      \* sockets for which io.on('connection') has run
  isStreamActive, \* process-wide flag of index.js
  captureState,   \* the closure variable captureState, one per connection
  inflight,       \* per connection: execute-capture handlers awaiting captureFrameFromStream
  log             \* per connection: the events emitted to that socket, in order

hubVars == <<connected, isStreamActive, captureState, inflight, log>>

\* -------------------------------------------------------- printer: state
VARIABLES
  files,        \* the paths that exist on disk
  phase,        \* per printImage call: where the call stands
  src,          \* per printImage call: its imagePath argument
  outcome,      \* per printImage call: what its caller has been told
  printQueue,   \* this.printQueue, the calls whose job is waiting
  isPrinting,   \* this.isPrinting
  timers,       \* pending setTimeout(processQueue, 1000): remaining time -> how many
  sinceDone,    \* time since the last job was resolved or rejected, up to Cooldown
  pushed,       \* history: the calls in the order their job was pushed
  submitted,    \* history: the calls in the order sendToPrinter was invoked
  unlinkCalls   \* history, per call: unlink calls of processQueue's finally block

printerVars == <<files, phase, src, outcome, printQueue, isPrinting, timers,
                 sinceDone, pushed, submitted, unlinkCalls>>

\* ------------------------------------------------- stream manager: state
VARIABLES
  isStreaming,    \* this.isStreaming
  streamProcess,  \* this.streamProcess: a child process, or NoProc
  ffmpegProcess,  \* this.ffmpegProcess: a child process, or NoProc
  proc,           \* per child process: what it runs and whether it still does
  source,         \* this.currentResolution: unset, set by the HDMI path, or by the camera path
  lastFrame,      \* this.lastHighQualityFrame is set
  starting,       \* startStream calls at an await: how many, per await
  startedTimers,  \* pending timers that announce stream-started, per pipeline
  clearTimers,    \* pending timers of stopStream that clear the process references
  restartTimers,  \* pending timers of captureFrameFromStream that call startStream
  captures,       \* captureFrameFromStream calls at an await, in call order
  stoppedBy       \* history: the last call that cleared isStreaming, if a handler did

streamVars == <<isStreaming, streamProcess, ffmpegProcess, proc, source, lastFrame,
                starting, startedTimers, clearTimers, restartTimers, captures,
                stoppedBy>>

\* ------------------------------------------------ hub: print-photo, state
VARIABLES
  printCaller,  \* per printImage call: the socket whose print-photo handler made it
  reported      \* per printImage call: the handler has resumed and emitted the result

printHubVars == <<printCaller, reported>>

\* ---------------------------------------------------------- client: state
VARIABLES
  appConnected,     \* PhotoboothApp.isConnected
  appCapturing,     \* PhotoboothApp.isCapturing
  currentPhotoPath, \* PhotoboothApp.currentPhotoPath: a path, or Null
  prewarmTimers,    \* pending timers of updateCameraStatus: remaining time -> how many
  reprepareTimers,  \* pending timers of the print-complete and error handlers
  countdowns,       \* capturePhoto calls in showCountdown: remaining time -> how many
  printing          \* print-photo handlers of the hub awaiting printImage

clientVars == <<appConnected, appCapturing, currentPhotoPath, prewarmTimers,
                reprepareTimers, countdowns, printing>>

\* --------------------------------------------- client: recent photos, state
VARIABLES
  recentPhotos,  \* PhotoboothApp.recentPhotos
  added          \* history: the arguments of the addRecentPhoto calls, in call order

recentVars == <<recentPhotos, added>>

\* ------------------------------------------- full-resolution capture: state
VARIABLES
  fullRes  \* per try-full-resolution handler: the socket, where the call of
           \* captureFullResolutionPhoto is, whether its file is on disk, what it returned

fullResVars == <<fullRes>>

\* ------------------------------------------------- frame extractor: state
VARIABLES
  buffer,                \* the data handler's buffer: the bytes not yet consumed
  lastHighQualityFrame,  \* this.lastHighQualityFrame: the bytes of a frame, empty when unset
  frameCounter,          \* this.frameCounter
  received               \* history: the bytes of all data events so far

extractorVars == <<buffer, lastHighQualityFrame, frameCounter, received>>

\* --------------------------------------- stream manager: spawn errors, state
VARIABLES
  failedSpawn  \* the transcoder whose spawn failed: its 'error' event is due, then its
               \* 'close' event, then nothing more

pipelineVars == <<failedSpawn>>

\* ------------------------------------------------- live-view poller: state
VARIABLES
  isRunning,         \* LiveViewManager.isRunning
  liveStarting,      \* start() calls at their await
  loops,             \* per captureLoop() call: where it is
  liveFrameCounter   \* LiveViewManager.frameCounter

liveViewVars == <<isRunning, liveStarting, loops, liveFrameCounter>>

\* the parts added to the hub, printer, stream and client models
restVars == <<fullResVars, extractorVars, pipelineVars, liveViewVars>>

outsideHub == <<printerVars, streamVars, printHubVars, clientVars, recentVars, restVars>>
outsidePrinter == <<hubVars, streamVars, printHubVars, clientVars, recentVars, restVars>>
outsideStream == <<printerVars, printHubVars, clientVars, recentVars, restVars>>
outsideClient == <<printerVars, streamVars, printHubVars, restVars>>
outsidePrint == <<streamVars, clientVars, recentVars, restVars>>
outsideRecent == <<hubVars, printerVars, streamVars, printHubVars, clientVars, restVars>>
outsideFullRes == <<hubVars, printerVars, streamVars, printHubVars, clientVars, recentVars,
                    extractorVars, pipelineVars, liveViewVars>>
outsidePipeline == <<printerVars, printHubVars, clientVars, recentVars, fullResVars,
                     extractorVars, liveViewVars>>
outsideLiveView == <<hubVars, printerVars, streamVars, printHubVars, clientVars, recentVars,
                     fullResVars, extractorVars, pipelineVars>>

Null == "null"
NotReadyMsg == "Stream not ready - please try again"
CaptureFailedMsg == "Failed to capture from stream"
FrameErrorMsg == "Capture failed"

\* what captureFrameFromStream can resolve with: a file path, or nothing
PhotoPath == "captures/photo.jpg"
Undefined == "undefined"
CaptureResults == {PhotoPath, Undefined}

InitialCaptureState == [isCapturing |-> FALSE, prepared |-> FALSE, error |-> Null]

\* the closure in which a connection's handlers find captureState
StateKeyShared(c) == "A"
StateKey(c) == c

CS(c) == captureState[StateKey(c)]

Emit(c, ev) == log' = [log EXCEPT ![c] = Append(@, ev)]

\* the events of one type in a log
Last(s) == s[Len(s)]

RECURSIVE Count(_, _)
Count(s, type) ==
  IF s = << >> THEN 0
  ELSE (IF Last(s)[1] = type THEN 1 ELSE 0) + Count(SubSeq(s, 1, Len(s) - 1), type)

CameraStatusStale(active) == <<"camera-status", FALSE, FALSE>>
CameraStatus(active) == <<"camera-status", active, active>>
ErrorEvent(msg) == <<"error", CaptureFailedMsg, msg>>

\* room left in the log for this handler and for every handler still awaiting
Room(c) == Len(log[c]) + 2 * inflight[c] + 2 <= MaxLog

HubInit ==
  /\ connected = {}
  /\ isStreamActive = FALSE
  /\ captureState = [c \in Conns |-> InitialCaptureState]
  /\ inflight = [c \in Conns |-> 0]
  /\ log = [c \in Conns |-> << >>]

\* io.on('connection'): status snapshot, fresh captureState
Connection(c) ==
  /\ c \notin connected
  /\ connected' = connected \cup {c}
  /\ Emit(c, CameraStatus(isStreamActive))
  /\ captureState' = [captureState EXCEPT ![StateKey(c)] = InitialCaptureState]
  /\ UNCHANGED <<isStreamActive, inflight>>
  /\ UNCHANGED outsideHub

\* the guard of prepare-capture
PrepareIgnored(cs) == cs.isCapturing /\ cs.prepared

\* what prepare-capture leaves in captureState when it is not ignored
PreparedStateKeepsError(cs) == [isCapturing |-> FALSE, prepared |-> TRUE, error |-> cs.error]
PreparedState(cs) == [isCapturing |-> FALSE, prepared |-> TRUE, error |-> Null]

\* socket.on('prepare-capture')
PrepareCapture(c) ==
  /\ c \in connected
  /\ captureState' = [captureState EXCEPT ![StateKey(c)] =
                        IF PrepareIgnored(@) THEN @ ELSE PreparedState(@)]
  /\ UNCHANGED <<connected, isStreamActive, inflight, log>>
  /\ UNCHANGED outsideHub

\* the guard of execute-capture
NotReadyPreparedUnchecked(cs) == cs.error # Null
NotReady(cs) == ~cs.prepared \/ cs.error # Null

\* the catch block of execute-capture
FailedStateStillPrepared(cs, msg) == [isCapturing |-> FALSE, prepared |-> cs.prepared, error |-> msg]
FailedState(cs, msg) == [isCapturing |-> FALSE, prepared |-> FALSE, error |-> msg]

\* the reset after a successful capture
DoneStateStillPrepared(cs) == [isCapturing |-> FALSE, prepared |-> cs.prepared, error |-> Null]
DoneState(cs) == [isCapturing |-> FALSE, prepared |-> FALSE, error |-> Null]

\* socket.on('execute-capture'), up to its await (or through its catch when not ready)
ExecuteCapture(c) ==
  /\ c \in connected
  /\ Room(c)
  /\ IF NotReady(CS(c))
       THEN /\ Emit(c, ErrorEvent(NotReadyMsg))
            /\ captureState' = [captureState EXCEPT ![StateKey(c)] = FailedState(@, NotReadyMsg)]
            /\ UNCHANGED inflight
       ELSE /\ captureState' = [captureState EXCEPT ![StateKey(c)].isCapturing = TRUE]
            /\ Emit(c, <<"capture-started">>)
            /\ inflight' = [inflight EXCEPT ![c] = @ + 1]
  /\ UNCHANGED <<connected, isStreamActive>>
  /\ UNCHANGED outsideHub

\* execute-capture resumes: captureFrameFromStream resolved with r
CaptureResolved(c, r) ==
  /\ inflight[c] > 0
  /\ inflight' = [inflight EXCEPT ![c] = @ - 1]
  /\ Emit(c, <<"capture-complete", r>>)
  /\ captureState' = [captureState EXCEPT ![StateKey(c)] = DoneState(@)]
  /\ UNCHANGED <<connected, isStreamActive>>
  /\ UNCHANGED outsideHub

\* execute-capture resumes: captureFrameFromStream rejected
CaptureRejected(c) ==
  /\ inflight[c] > 0
  /\ inflight' = [inflight EXCEPT ![c] = @ - 1]
  /\ Emit(c, ErrorEvent(FrameErrorMsg))
  /\ captureState' = [captureState EXCEPT ![StateKey(c)] = FailedState(@, FrameErrorMsg)]
  /\ UNCHANGED <<connected, isStreamActive>>
  /\ UNCHANGED outsideHub

HubNext ==
  \/ \E c \in Conns : Connection(c)
  \/ \E c \in Conns : PrepareCapture(c)
  \/ \E c \in Conns : ExecuteCapture(c)
  \/ \E c \in Conns, r \in CaptureResults : CaptureResolved(c, r)
  \/ \E c \in Conns : CaptureRejected(c)

\* ------------------------------------------------------ printer: model
Calls == 1..MaxCalls

\* setTimeout(() => this.processQueue(), 1000), in seconds
Cooldown == 1

\* stats.size > 50 * 1024 * 1024
MaxFileSize == 52428800
\* metadata.width < 100 || metadata.height < 100
MinDimension == 100
SupportedFormats == {"jpeg", "jpg", "png", "webp", "tiff", "gif"}

\* a path is the sequence of its pieces, the suffix last
NoPath == << >>

\* the images a caller may name: what stat and sharp's metadata report for them
Catalog ==
  [p \in {<<"a", ".jpg">>, <<"b", ".jpg">>, <<"c", ".png">>, <<"missing", ".jpg">>,
          <<"empty", ".jpg">>, <<"huge", ".jpg">>, <<"nodim", ".jpg">>,
          <<"small", ".jpg">>, <<"odd", ".jpg">>} |->
     CASE p = <<"a", ".jpg">>       -> [onDisk |-> TRUE, size |-> MaxFileSize, width |-> 1800, height |-> 1200, format |-> "jpeg"]
       [] p = <<"b", ".jpg">>       -> [onDisk |-> TRUE, size |-> 1, width |-> 100, height |-> 100, format |-> "jpeg"]
       [] p = <<"c", ".png">>       -> [onDisk |-> TRUE, size |-> 2048, width |-> 640, height |-> 480, format |-> "png"]
       [] p = <<"missing", ".jpg">> -> [onDisk |-> FALSE, size |-> 0, width |-> 0, height |-> 0, format |-> "jpeg"]
       [] p = <<"empty", ".jpg">>   -> [onDisk |-> TRUE, size |-> 0, width |-> 0, height |-> 0, format |-> "jpeg"]
       [] p = <<"huge", ".jpg">>    -> [onDisk |-> TRUE, size |-> MaxFileSize + 1, width |-> 6000, height |-> 4000, format |-> "jpeg"]
       [] p = <<"nodim", ".jpg">>   -> [onDisk |-> TRUE, size |-> 2048, width |-> 0, height |-> 480, format |-> "jpeg"]
       [] p = <<"small", ".jpg">>   -> [onDisk |-> TRUE, size |-> 2048, width |-> 100, height |-> 99, format |-> "jpeg"]
       [] p = <<"odd", ".jpg">>     -> [onDisk |-> TRUE, size |-> 2048, width |-> 640, height |-> 480, format |-> "heif"]]

Sources == DOMAIN Catalog

\* imagePath.replace(/\.jpg$/, '_print.jpg')
OutputPath(p) ==
  IF p[Len(p)] = ".jpg"
    THEN SubSeq(p, 1, Len(p) - 1) \o <<"_print", ".jpg">>
    ELSE p

\* job.path.includes('_print.jpg')
IncludesPrintJpg(p) == \E i \in 1..(Len(p) - 1) : p[i] = "_print" /\ p[i + 1] = ".jpg"

\* the checks of prepareImageForPrint before the image is processed: the
\* message of the error thrown, or Null
ValidationErrorNoMinimum(p, disk) ==
  IF p \notin disk THEN "Image file not found"
  ELSE IF Catalog[p].size = 0 THEN "Image file is empty"
  ELSE IF Catalog[p].size > MaxFileSize THEN "Image file is too large (max 50MB)"
  ELSE IF Catalog[p].width = 0 \/ Catalog[p].height = 0
    THEN "Invalid image: Unable to read image dimensions"
  ELSE IF Catalog[p].format \notin SupportedFormats THEN "Unsupported image format"
  ELSE Null
ValidationError(p, disk) ==
  IF p \notin disk THEN "Image file not found"
  ELSE IF Catalog[p].size = 0 THEN "Image file is empty"
  ELSE IF Catalog[p].size > MaxFileSize THEN "Image file is too large (max 50MB)"
  ELSE IF Catalog[p].width = 0 \/ Catalog[p].height = 0
    THEN "Invalid image: Unable to read image dimensions"
  ELSE IF Catalog[p].width < MinDimension \/ Catalog[p].height < MinDimension
    THEN "Image resolution too low (minimum 100x100 pixels)"
  ELSE IF Catalog[p].format \notin SupportedFormats THEN "Unsupported image format"
  ELSE Null

NoTimers == [r \in 0..Cooldown |-> 0]

PrinterInit ==
  /\ files = {p \in Sources : Catalog[p].onDisk}
  /\ phase = [id \in Calls |-> "none"]
  /\ src = [id \in Calls |-> NoPath]
  /\ outcome = [id \in Calls |-> "pending"]
  /\ printQueue = << >>
  /\ isPrinting = FALSE
  /\ timers = NoTimers
  /\ sinceDone = Cooldown
  /\ pushed = << >>
  /\ submitted = << >>
  /\ unlinkCalls = [id \in Calls |-> 0]

JobPath(id) == OutputPath(src[id])

\* the guard of processQueue
BusyFlagUnchecked(q) == q = << >>
Busy(q) == isPrinting \/ q = << >>

\* processQueue() on the queue q, up to its await of sendToPrinter; ph is
\* the calls' phases at the time of the call
ProcessQueue(q, ph) ==
  IF Busy(q)
    THEN /\ printQueue' = q
         /\ phase' = ph
         /\ UNCHANGED <<isPrinting, submitted>>
    ELSE /\ isPrinting' = TRUE
         /\ printQueue' = Tail(q)
         /\ phase' = [ph EXCEPT ![Head(q)] = "printing"]
         /\ submitted' = Append(submitted, Head(q))

\* the catch block of prepareImageForPrint: unlink(outputPath), then throw
PrepareFailed(id, p, ph) ==
  /\ files' = files \ {OutputPath(p)}
  /\ phase' = [phase EXCEPT ![id] = ph]
  /\ outcome' = [outcome EXCEPT ![id] = "rejected"]

\* printImage(imagePath): prepareImageForPrint runs access, stat, metadata
\* and the checks on them
PrintImageCall(id, p) ==
  /\ phase[id] = "none"
  /\ \A j \in Calls : j < id => phase[j] # "none"
  /\ src' = [src EXCEPT ![id] = p]
  /\ IF ValidationError(p, files) # Null
       THEN PrepareFailed(id, p, "invalid")
       ELSE /\ phase' = [phase EXCEPT ![id] = "writing"]
            /\ UNCHANGED <<files, outcome>>
  /\ UNCHANGED <<printQueue, isPrinting, timers, sinceDone, pushed, submitted,
                 unlinkCalls>>

\* printImage called by a user of the controller other than the hub
PrintImage(id, p) ==
  /\ PrintImageCall(id, p)
  /\ UNCHANGED outsidePrinter

\* prepareImageForPrint: sharp(imagePath)...toFile(outputPath); sharp refuses
\* to write the file it reads
WriteOutput(id, ok) ==
  /\ phase[id] = "writing"
  /\ IF ok /\ src[id] \in files /\ JobPath(id) # src[id]
       THEN /\ files' = files \cup {JobPath(id)}
            /\ phase' = [phase EXCEPT ![id] = "checking"]
            /\ UNCHANGED outcome
       ELSE PrepareFailed(id, src[id], "prepfailed")
  /\ UNCHANGED <<src, printQueue, isPrinting, timers, sinceDone, pushed,
                 submitted, unlinkCalls>>
  /\ UNCHANGED outsidePrinter

\* prepareImageForPrint: access and stat of the output, return; printImage
\* then pushes the job and calls processQueue
CheckOutputAndEnqueue(id) ==
  /\ phase[id] = "checking"
  /\ IF JobPath(id) \in files
       THEN /\ pushed' = Append(pushed, id)
            /\ ProcessQueue(Append(printQueue, id), [phase EXCEPT ![id] = "queued"])
            /\ UNCHANGED <<files, outcome>>
       ELSE /\ PrepareFailed(id, src[id], "prepfailed")
            /\ UNCHANGED <<printQueue, isPrinting, pushed, submitted>>
  /\ UNCHANGED <<src, timers, sinceDone, unlinkCalls>>
  /\ UNCHANGED outsidePrinter

\* how many unlink calls the finally block of processQueue makes for a job
CleanupCallsOnSuccessOnly(p, ok) == IF ok /\ IncludesPrintJpg(p) THEN 1 ELSE 0
CleanupCalls(p, ok) == IF IncludesPrintJpg(p) THEN 1 ELSE 0

\* processQueue: the flag is cleared and the next run is scheduled
FinishWithoutTimer(ph) ==
  /\ phase' = ph
  /\ isPrinting' = FALSE
  /\ timers' = timers
Finish(ph) ==
  /\ phase' = ph
  /\ isPrinting' = FALSE
  /\ timers' = IF printQueue # << >>
                 THEN [timers EXCEPT ![Cooldown] = @ + 1]
                 ELSE timers

\* processQueue resumes: sendToPrinter resolved (ok) or rejected; the caller
\* is told, then the finally block calls unlink
SendDone(id, ok) ==
  /\ phase[id] = "printing"
  /\ outcome' = [outcome EXCEPT ![id] = IF ok THEN "resolved" ELSE "rejected"]
  /\ sinceDone' = 0
  /\ unlinkCalls' = [unlinkCalls EXCEPT ![id] = @ + CleanupCalls(JobPath(id), ok)]
  /\ IF CleanupCalls(JobPath(id), ok) > 0
       THEN /\ phase' = [phase EXCEPT ![id] = "cleanup"]
            /\ UNCHANGED <<isPrinting, timers>>
       ELSE Finish([phase EXCEPT ![id] = "done"])
  /\ UNCHANGED <<files, src, printQueue, pushed, submitted>>
  /\ UNCHANGED outsidePrinter

\* processQueue resumes: unlink returned (its failure is only logged)
CleanupDone(id) ==
  /\ phase[id] = "cleanup"
  /\ files' = files \ {JobPath(id)}
  /\ Finish([phase EXCEPT ![id] = "done"])
  /\ UNCHANGED <<src, outcome, printQueue, sinceDone, pushed, submitted, unlinkCalls>>
  /\ UNCHANGED outsidePrinter

\* a timer set by processQueue expires: processQueue()
TimerFired ==
  /\ timers[0] > 0
  /\ timers' = [timers EXCEPT ![0] = @ - 1]
  /\ ProcessQueue(printQueue, phase)
  /\ UNCHANGED <<files, src, outcome, sinceDone, pushed, unlinkCalls>>
  /\ UNCHANGED outsidePrinter

\* one second passes
Tick ==
  /\ sinceDone < Cooldown \/ \E r \in 1..Cooldown : timers[r] > 0
  /\ sinceDone' = IF sinceDone < Cooldown THEN sinceDone + 1 ELSE sinceDone
  /\ timers' = [r \in 0..Cooldown |->
                  (IF r = 0 THEN timers[0] ELSE 0)
                  + (IF r < Cooldown THEN timers[r + 1] ELSE 0)]
  /\ UNCHANGED <<files, phase, src, outcome, printQueue, isPrinting, pushed,
                 submitted, unlinkCalls>>
  /\ UNCHANGED outsidePrinter

\* cancelAllJobs: the callback of a successful cancel -a
CancelAllJobs ==
  /\ printQueue # << >>
  /\ printQueue' = << >>
  /\ UNCHANGED <<files, phase, src, outcome, isPrinting, timers, sinceDone,
                 pushed, submitted, unlinkCalls>>
  /\ UNCHANGED outsidePrinter

\* the images the callers name: any image at any time, the second printable
\* photo only once
Named == {src[id] : id \in Calls}
Requests == {p \in Sources : p = <<"b", ".jpg">> => p \notin Named}

PrinterNext ==
  \/ \E id \in Calls, p \in Requests : PrintImage(id, p)
  \/ \E id \in Calls, ok \in BOOLEAN : WriteOutput(id, ok)
  \/ \E id \in Calls : CheckOutputAndEnqueue(id)
  \/ \E id \in Calls, ok \in BOOLEAN : SendDone(id, ok)
  \/ \E id \in Calls : CleanupDone(id)
  \/ TimerFired
  \/ Tick
  \/ CancelAllJobs

\* -------------------------------------------------- stream manager: model
Pids == 1..MaxProcs
NoProc == 0

\* the child processes that have not exited
Alive(pr) == {p \in Pids : pr[p].state \in {"running", "killed"}}
Unused == {p \in Pids : proc[p].state = "unused"}
FirstUnused == CHOOSE p \in Unused : \A q \in Unused : p <= q

NoStarts == [probe |-> 0, config |-> 0]
NoStartedTimers == [hdmi |-> 0, camera |-> 0, basic |-> 0]

StreamInit ==
  /\ isStreaming = FALSE
  /\ streamProcess = NoProc
  /\ ffmpegProcess = NoProc
  /\ proc = [p \in Pids |-> [kind |-> "none", state |-> "unused"]]
  /\ source = "unset"
  /\ lastFrame = FALSE
  /\ starting = NoStarts
  /\ startedTimers = NoStartedTimers
  /\ clearTimers = 0
  /\ restartTimers = 0
  /\ captures = << >>
  /\ stoppedBy = "none"

\* io.emit(ev)
BroadcastToFirst(ev) ==
  log' = [c \in Conns |-> IF c \in connected /\ c = "A" THEN Append(log[c], ev) ELSE log[c]]
Broadcast(ev) ==
  log' = [c \in Conns |-> IF c \in connected THEN Append(log[c], ev) ELSE log[c]]

\* room left in the logs for a broadcast, and for an execute-capture and the
\* handlers still awaiting
BroadcastRoom == \A c \in connected : Len(log[c]) < MaxEvents
StreamRoom(c) == Len(log[c]) + 2 * inflight[c] + 2 <= MaxEvents

\* videoStreamManager.on('stream-started')
StartedStatus == <<"camera-status", TRUE, TRUE>>
OnStreamStartedUnannounced ==
  /\ isStreamActive' = TRUE
  /\ UNCHANGED log
OnStreamStarted ==
  /\ isStreamActive' = TRUE
  /\ Broadcast(StartedStatus)

\* videoStreamManager.on('stream-ended')
EndedStatus == <<"camera-status", FALSE, FALSE>>
OnStreamEnded ==
  /\ isStreamActive' = FALSE
  /\ Broadcast(EndedStatus)

\* startStream(), up to its first await
StartStreamUnguarded ==
  /\ isStreaming' = TRUE
  /\ starting' = [starting EXCEPT !.probe = @ + 1]
  /\ stoppedBy' = "none"
StartStream ==
  IF isStreaming
    THEN UNCHANGED <<isStreaming, starting, stoppedBy>>
    ELSE /\ isStreaming' = TRUE
         /\ starting' = [starting EXCEPT !.probe = @ + 1]
         /\ stoppedBy' = "none"

\* stopStream(), up to its await: SIGTERM to the referenced children, the
\* timer that clears the references
KillReferenced(pr) ==
  [p \in Pids |->
     IF p \in {streamProcess, ffmpegProcess} /\ pr[p].state = "running"
       THEN [pr[p] EXCEPT !.state = "killed"]
       ELSE pr[p]]

StopStream(by) ==
  /\ isStreaming' = FALSE
  /\ proc' = KillReferenced(proc)
  /\ clearTimers' = clearTimers + 1
  /\ stoppedBy' = by

\* socket.on('connect-camera')
ConnectCamera(c) ==
  /\ c \in connected
  /\ starting.probe < MaxPending
  /\ IF ~isStreamActive
       THEN StartStream
       ELSE UNCHANGED <<isStreaming, starting, stoppedBy>>
  /\ UNCHANGED <<streamProcess, ffmpegProcess, proc, source, lastFrame,
                 startedTimers, clearTimers, restartTimers, captures>>
  /\ UNCHANGED hubVars
  /\ UNCHANGED outsideStream

\* socket.on('disconnect-camera')
DisconnectCamera(c) ==
  /\ c \in connected
  /\ clearTimers < MaxPending
  /\ IF isStreamActive
       THEN StopStream("disconnect-camera")
       ELSE UNCHANGED <<isStreaming, proc, clearTimers, stoppedBy>>
  /\ UNCHANGED <<streamProcess, ffmpegProcess, source, lastFrame, starting,
                 startedTimers, restartTimers, captures>>
  /\ UNCHANGED hubVars
  /\ UNCHANGED outsideStream

\* startStream resumes: ffmpeg and the capture device were found (hdmi), so
\* startHDMICaptureStream spawns ffmpeg; or one of them was not, so
\* startGPhoto2Fallback runs up to its first await
ProbeDone(hdmi) ==
  /\ starting.probe > 0
  /\ hdmi \/ starting.config < MaxPending
  /\ IF hdmi
       THEN /\ Unused # {}
            /\ proc' = [proc EXCEPT ![FirstUnused] = [kind |-> "hdmi", state |-> "running"]]
            /\ ffmpegProcess' = FirstUnused
            /\ source' = "hdmi"
            /\ startedTimers' = [startedTimers EXCEPT !.hdmi = @ + 1]
            /\ starting' = [starting EXCEPT !.probe = @ - 1]
            /\ UNCHANGED isStreaming
       ELSE /\ isStreaming' = TRUE
            /\ starting' = [probe |-> starting.probe - 1, config |-> starting.config + 1]
            /\ UNCHANGED <<proc, ffmpegProcess, source, startedTimers>>
  /\ UNCHANGED <<streamProcess, lastFrame, clearTimers, restartTimers, captures,
                 stoppedBy>>
  /\ UNCHANGED hubVars
  /\ UNCHANGED outsideStream

\* startGPhoto2Fallback resumes: the camera is configured, currentResolution
\* is replaced, startHighResolutionPipeline spawns gphoto2 and ffmpeg
ConfigDone ==
  /\ starting.config > 0
  /\ Cardinality(Unused) >= 2
  /\ LET g == FirstUnused
         f == CHOOSE p \in Unused \ {g} : \A q \in Unused \ {g} : p <= q
     IN /\ proc' = [proc EXCEPT ![g] = [kind |-> "gphoto2", state |-> "running"],
                                ![f] = [kind |-> "ffmpeg", state |-> "running"]]
        /\ streamProcess' = g
        /\ ffmpegProcess' = f
  /\ source' = "camera"
  /\ startedTimers' = [startedTimers EXCEPT !.camera = @ + 1]
  /\ starting' = [starting EXCEPT !.config = @ - 1]
  /\ UNCHANGED <<isStreaming, lastFrame, clearTimers, restartTimers, captures,
                 stoppedBy>>
  /\ UNCHANGED hubVars
  /\ UNCHANGED outsideStream

\* the condition under which a pipeline's timer announces stream-started
Announces(kind) ==
  IF kind = "hdmi" THEN isStreaming /\ ffmpegProcess # NoProc
  ELSE IF kind = "basic" THEN isStreaming /\ streamProcess # NoProc
  ELSE isStreaming /\ streamProcess # NoProc /\ ffmpegProcess # NoProc

\* a timer set when a pipeline was spawned expires
StartedTimer(kind) ==
  /\ startedTimers[kind] > 0
  /\ startedTimers' = [startedTimers EXCEPT ![kind] = @ - 1]
  /\ IF Announces(kind)
       THEN /\ BroadcastRoom
            /\ OnStreamStarted
       ELSE UNCHANGED <<isStreamActive, log>>
  /\ UNCHANGED <<connected, captureState, inflight>>
  /\ UNCHANGED <<isStreaming, streamProcess, ffmpegProcess, proc, source, lastFrame,
                 starting, clearTimers, restartTimers, captures, stoppedBy>>
  /\ UNCHANGED outsideStream

\* whether a close handler announces stream-ended
EndAnnouncedNever(wasStreaming) == FALSE
EndAnnounced(wasStreaming) == wasStreaming

\* a child's close event: ffmpegProcess.on('close') of the HDMI path,
\* handleProcessEnd of the camera path
ProcessClose(p) ==
  /\ p \in Alive(proc)
  /\ proc' = [proc EXCEPT ![p].state = "closed"]
  /\ isStreaming' = FALSE
  /\ IF EndAnnounced(isStreaming)
       THEN /\ BroadcastRoom
            /\ OnStreamEnded
       ELSE UNCHANGED <<isStreamActive, log>>
  /\ UNCHANGED <<connected, captureState, inflight>>
  /\ UNCHANGED <<streamProcess, ffmpegProcess, source, lastFrame, starting,
                 startedTimers, clearTimers, restartTimers, captures, stoppedBy>>
  /\ UNCHANGED outsideStream

\* the captureFrameFromStream calls whose stopStream set a timer that has
\* not expired: the call's own sleep(1000) begins after stopStream and ends
\* after that timer; the timers expire in the order they were set
InGrace(seq) == {i \in DOMAIN seq : seq[i].grace}
GraceOver(seq) ==
  IF InGrace(seq) = {} THEN seq
  ELSE [seq EXCEPT ![CHOOSE i \in InGrace(seq) : \A j \in InGrace(seq) : i <= j].grace = FALSE]

\* the timer of stopStream expires
ClearTimer ==
  /\ clearTimers > 0
  /\ clearTimers' = clearTimers - 1
  /\ streamProcess' = NoProc
  /\ ffmpegProcess' = NoProc
  /\ captures' = GraceOver(captures)
  /\ UNCHANGED <<isStreaming, proc, source, lastFrame, starting, startedTimers,
                 restartTimers, stoppedBy>>
  /\ UNCHANGED hubVars
  /\ UNCHANGED outsideStream

\* the children whose stdout carries frames to a data handler
Producers == {p \in Alive(proc) : proc[p].kind \in {"hdmi", "ffmpeg", "basic"}}

\* a data handler finds a complete frame: it is kept as lastHighQualityFrame
\* and, unless throttled, emitted as 'frame', which the hub forwards as
\* preview-frame
Frame(p, emitted) ==
  /\ p \in Producers
  /\ lastFrame' = TRUE
  /\ IF emitted
       THEN /\ BroadcastRoom
            /\ \A c \in connected : Count(log[c], "preview-frame") < MaxFrames
            /\ Broadcast(<<"preview-frame">>)
       ELSE /\ ~lastFrame
            /\ UNCHANGED log
  /\ UNCHANGED <<connected, isStreamActive, captureState, inflight>>
  /\ UNCHANGED <<isStreaming, streamProcess, ffmpegProcess, proc, source, starting,
                 startedTimers, clearTimers, restartTimers, captures, stoppedBy>>
  /\ UNCHANGED outsideStream

\* execute-capture resumes after captureFrameFromStream resolved with r
Resolved(c, r) ==
  /\ inflight' = [inflight EXCEPT ![c] = @ - 1]
  /\ Emit(c, <<"capture-complete", r>>)
  /\ captureState' = [captureState EXCEPT ![StateKey(c)] = DoneState(@)]

\* execute-capture resumes in its catch block
Rejected(c) ==
  /\ inflight' = [inflight EXCEPT ![c] = @ - 1]
  /\ Emit(c, ErrorEvent(FrameErrorMsg))
  /\ captureState' = [captureState EXCEPT ![StateKey(c)] = FailedState(@, FrameErrorMsg)]

\* which branch captureFrameFromStream takes
Branch ==
  IF lastFrame /\ source = "hdmi" THEN "save"
  ELSE IF source # "hdmi" THEN "shoot"
  ELSE "none"

Without(seq, i) == SubSeq(seq, 1, i - 1) \o SubSeq(seq, i + 1, Len(seq))

\* socket.on('execute-capture') with the call of captureFrameFromStream up
\* to its first await: the buffered frame is handed to sharp; or the stream
\* is stopped for a camera capture; or neither applies and the call returns
ExecuteCaptureOnStream(c) ==
  /\ c \in connected
  /\ StreamRoom(c)
  /\ clearTimers < MaxPending
  /\ Count(log[c], "capture-started") + Count(log[c], "error") < MaxCaptures
  /\ UNCHANGED <<connected, isStreamActive>>
  /\ UNCHANGED <<streamProcess, ffmpegProcess, source, lastFrame, starting,
                 startedTimers, restartTimers>>
  /\ UNCHANGED outsideStream
  /\ IF NotReady(CS(c))
       THEN /\ Emit(c, ErrorEvent(NotReadyMsg))
            /\ captureState' = [captureState EXCEPT ![StateKey(c)] = FailedState(@, NotReadyMsg)]
            /\ UNCHANGED <<inflight, isStreaming, proc, clearTimers, captures, stoppedBy>>
       ELSE CASE Branch = "save" ->
                   /\ captureState' = [captureState EXCEPT ![StateKey(c)].isCapturing = TRUE]
                   /\ Emit(c, <<"capture-started">>)
                   /\ inflight' = [inflight EXCEPT ![c] = @ + 1]
                   /\ captures' = Append(captures, [conn |-> c, at |-> "save", wasStreaming |-> isStreaming,
                                                         grace |-> FALSE])
                   /\ UNCHANGED <<isStreaming, proc, clearTimers, stoppedBy>>
              [] Branch = "shoot" ->
                   /\ captureState' = [captureState EXCEPT ![StateKey(c)].isCapturing = TRUE]
                   /\ Emit(c, <<"capture-started">>)
                   /\ inflight' = [inflight EXCEPT ![c] = @ + 1]
                   /\ captures' = Append(captures, [conn |-> c, at |-> "shoot", wasStreaming |-> isStreaming,
                                                         grace |-> TRUE])
                   /\ StopStream("execute-capture")
              [] Branch = "none" ->
                   /\ captureState' = [captureState EXCEPT ![StateKey(c)] = DoneState(@)]
                   /\ log' = [log EXCEPT ![c] = @ \o << <<"capture-started">>,
                                                       <<"capture-complete", Undefined>> >>]
                   /\ UNCHANGED <<inflight, isStreaming, proc, clearTimers, captures, stoppedBy>>

\* captureFrameFromStream resumes: sharp wrote the buffered frame (ok), or
\* failed and the catch block hands the buffered frame to sharp again
FrameSaved(i, ok) ==
  /\ i \in DOMAIN captures
  /\ captures[i].at = "save"
  /\ IF ok
       THEN /\ captures' = Without(captures, i)
            /\ Resolved(captures[i].conn, PhotoPath)
       ELSE /\ captures' = [captures EXCEPT ![i].at = "fallback"]
            /\ UNCHANGED <<inflight, log, captureState>>
  /\ UNCHANGED <<connected, isStreamActive>>
  /\ UNCHANGED <<isStreaming, streamProcess, ffmpegProcess, proc, source, lastFrame,
                 starting, startedTimers, clearTimers, restartTimers, stoppedBy>>
  /\ UNCHANGED outsideStream

\* captureFrameFromStream resumes: the stream was stopped, the camera took
\* and downloaded the photo (ok) and the restart is scheduled if the stream
\* was running; or a step failed and the catch block falls back to the
\* buffered frame or, without one, schedules the restart and rethrows
PhotoTaken(i, ok) ==
  /\ i \in DOMAIN captures
  /\ captures[i].at = "shoot"
  /\ ~captures[i].grace
  /\ IF ok
       THEN /\ captures' = Without(captures, i)
            /\ restartTimers' = restartTimers + (IF captures[i].wasStreaming THEN 1 ELSE 0)
            /\ Resolved(captures[i].conn, PhotoPath)
       ELSE IF lastFrame
         THEN /\ captures' = [captures EXCEPT ![i].at = "fallback"]
              /\ UNCHANGED <<restartTimers, inflight, log, captureState>>
         ELSE /\ captures' = Without(captures, i)
              /\ restartTimers' = restartTimers + 1
              /\ Rejected(captures[i].conn)
  /\ UNCHANGED <<connected, isStreamActive>>
  /\ UNCHANGED <<isStreaming, streamProcess, ffmpegProcess, proc, source, lastFrame,
                 starting, startedTimers, clearTimers, stoppedBy>>
  /\ UNCHANGED outsideStream

\* the catch block of captureFrameFromStream resumes: sharp wrote the
\* buffered frame (ok) and the restart is scheduled unless the source is
\* HDMI; or sharp failed and the call rejects
FallbackSaved(i, ok) ==
  /\ i \in DOMAIN captures
  /\ captures[i].at = "fallback"
  /\ captures' = Without(captures, i)
  /\ IF ok
       THEN /\ restartTimers' = restartTimers + (IF source # "hdmi" THEN 1 ELSE 0)
            /\ Resolved(captures[i].conn, PhotoPath)
       ELSE /\ UNCHANGED restartTimers
            /\ Rejected(captures[i].conn)
  /\ UNCHANGED <<connected, isStreamActive>>
  /\ UNCHANGED <<isStreaming, streamProcess, ffmpegProcess, proc, source, lastFrame,
                 starting, startedTimers, clearTimers, stoppedBy>>
  /\ UNCHANGED outsideStream

\* a restart timer of captureFrameFromStream expires: startStream()
RestartTimer ==
  /\ restartTimers > 0
  /\ starting.probe < MaxPending
  /\ restartTimers' = restartTimers - 1
  /\ StartStream
  /\ UNCHANGED <<streamProcess, ffmpegProcess, proc, source, lastFrame,
                 startedTimers, clearTimers, captures>>
  /\ UNCHANGED hubVars
  /\ UNCHANGED outsideStream

StreamNext ==
  \/ \E c \in Conns : Connection(c)
  \/ \E c \in Conns : ConnectCamera(c)
  \/ \E c \in Conns : DisconnectCamera(c)
  \/ \E hdmi \in BOOLEAN : ProbeDone(hdmi)
  \/ ConfigDone
  \/ \E kind \in {"hdmi", "camera"} : StartedTimer(kind)
  \/ \E p \in Pids : ProcessClose(p)
  \/ ClearTimer
  \/ \E p \in Pids, emitted \in BOOLEAN : Frame(p, emitted)

\* the end-to-end scenario: one client, the stream and its captures
Scenario == {"A"}

CaptureNext ==
  \/ \E c \in Scenario : Connection(c)
  \/ \E c \in Scenario : PrepareCapture(c)
  \/ \E c \in Scenario : ConnectCamera(c)
  \/ \E hdmi \in BOOLEAN : ProbeDone(hdmi)
  \/ ConfigDone
  \/ \E kind \in {"hdmi", "camera"} : StartedTimer(kind)
  \/ \E p \in Pids : ProcessClose(p)
  \/ ClearTimer
  \/ \E p \in Pids, emitted \in BOOLEAN : Frame(p, emitted)
  \/ \E c \in Scenario : ExecuteCaptureOnStream(c)
  \/ \E i \in 1..MaxCaptures, ok \in BOOLEAN : FrameSaved(i, ok)
  \/ \E i \in 1..MaxCaptures, ok \in BOOLEAN : PhotoTaken(i, ok)
  \/ \E i \in 1..MaxCaptures, ok \in BOOLEAN : FallbackSaved(i, ok)
  \/ RestartTimer

\* two clients and the one camera: each prepares and captures, the stream is
\* started by the restart timers of captureFrameFromStream
SharedCameraNext ==
  \/ \E c \in Conns : Connection(c)
  \/ \E c \in Conns : PrepareCapture(c)
  \/ \E hdmi \in BOOLEAN : ProbeDone(hdmi)
  \/ ConfigDone
  \/ \E kind \in {"hdmi", "camera"} : StartedTimer(kind)
  \/ \E p \in Pids : ProcessClose(p)
  \/ ClearTimer
  \/ \E p \in Pids, emitted \in BOOLEAN : Frame(p, emitted)
  \/ \E c \in Conns : ExecuteCaptureOnStream(c)
  \/ \E i \in 1..Cardinality(Conns) * MaxCaptures, ok \in BOOLEAN : FrameSaved(i, ok)
  \/ \E i \in 1..Cardinality(Conns) * MaxCaptures, ok \in BOOLEAN : PhotoTaken(i, ok)
  \/ \E i \in 1..Cardinality(Conns) * MaxCaptures, ok \in BOOLEAN : FallbackSaved(i, ok)
  \/ RestartTimer

\* ------------------------------------- stream manager: spawn errors, model
\* the reference to a child process whose spawn failed: an object without a
\* process behind it
FailedProc == -1

PipelineInit == failedSpawn = "none"

\* startGPhoto2Fallback resumes as in ConfigDone, but the spawn of ffmpeg
\* fails (ffmpeg is not installed, which is why the HDMI path was left):
\* gphoto2 runs, the transcoder's 'error' event is due
ConfigDoneSpawnError ==
  /\ starting.config > 0
  /\ failedSpawn = "none"
  /\ Unused # {}
  /\ proc' = [proc EXCEPT ![FirstUnused] = [kind |-> "gphoto2", state |-> "running"]]
  /\ streamProcess' = FirstUnused
  /\ ffmpegProcess' = FailedProc
  /\ failedSpawn' = "error"
  /\ source' = "camera"
  /\ startedTimers' = [startedTimers EXCEPT !.camera = @ + 1]
  /\ starting' = [starting EXCEPT !.config = @ - 1]
  /\ UNCHANGED <<isStreaming, lastFrame, clearTimers, restartTimers, captures,
                 stoppedBy>>
  /\ UNCHANGED hubVars
  /\ UNCHANGED outsidePipeline

\* startStream resumes as in ProbeDone(TRUE), but the spawn of ffmpeg by
\* startHDMICaptureStream fails: the references and the timer are set, the
\* 'error' event is due
ProbeDoneSpawnError ==
  /\ starting.probe > 0
  /\ failedSpawn = "none"
  /\ ffmpegProcess' = FailedProc
  /\ failedSpawn' = "hdmiError"
  /\ source' = "hdmi"
  /\ startedTimers' = [startedTimers EXCEPT !.hdmi = @ + 1]
  /\ starting' = [starting EXCEPT !.probe = @ - 1]
  /\ UNCHANGED <<isStreaming, streamProcess, proc, lastFrame, clearTimers,
                 restartTimers, captures, stoppedBy>>
  /\ UNCHANGED hubVars
  /\ UNCHANGED outsidePipeline

\* ffmpegProcess.on('error') of startHDMICaptureStream:
\* startGPhoto2Fallback() up to its first await
HdmiSpawnErrorHandled ==
  /\ failedSpawn = "hdmiError"
  /\ starting.config < MaxPending
  /\ failedSpawn' = "hdmiClose"
  /\ isStreaming' = TRUE
  /\ starting' = [starting EXCEPT !.config = @ + 1]
  /\ UNCHANGED <<streamProcess, ffmpegProcess, proc, source, lastFrame, startedTimers,
                 clearTimers, restartTimers, captures, stoppedBy>>
  /\ UNCHANGED hubVars
  /\ UNCHANGED outsidePipeline

\* ffmpegProcess.on('error') of startHighResolutionPipeline:
\* startBasicStream() spawns gphoto2 --capture-movie, replaces
\* this.streamProcess and sets the 1 s timer of stream-started
SpawnErrorHandledByRetry ==
  /\ failedSpawn = "error"
  /\ starting.config < MaxPending
  /\ failedSpawn' = "close"
  /\ isStreaming' = TRUE
  /\ starting' = [starting EXCEPT !.config = @ + 1]
  /\ UNCHANGED <<streamProcess, ffmpegProcess, proc, source, lastFrame, startedTimers,
                 clearTimers, restartTimers, captures, stoppedBy>>
  /\ UNCHANGED hubVars
  /\ UNCHANGED outsidePipeline
SpawnErrorHandled ==
  /\ failedSpawn = "error"
  /\ Unused # {}
  /\ failedSpawn' = "close"
  /\ proc' = [proc EXCEPT ![FirstUnused] = [kind |-> "basic", state |-> "running"]]
  /\ streamProcess' = FirstUnused
  /\ startedTimers' = [startedTimers EXCEPT !.basic = @ + 1]
  /\ UNCHANGED <<isStreaming, ffmpegProcess, source, lastFrame, starting, clearTimers,
                 restartTimers, captures, stoppedBy>>
  /\ UNCHANGED hubVars
  /\ UNCHANGED outsidePipeline

\* the 'close' event that follows a failed spawn: ffmpegProcess.on('close')
\* of the HDMI path, handleProcessEnd of the camera path
FailedSpawnClose ==
  /\ failedSpawn \in {"close", "hdmiClose"}
  /\ failedSpawn' = IF failedSpawn = "close" THEN "done" ELSE "none"
  /\ isStreaming' = FALSE
  /\ IF EndAnnounced(isStreaming)
       THEN /\ BroadcastRoom
            /\ OnStreamEnded
       ELSE UNCHANGED <<isStreamActive, log>>
  /\ UNCHANGED <<connected, captureState, inflight>>
  /\ UNCHANGED <<streamProcess, ffmpegProcess, proc, source, lastFrame, starting,
                 startedTimers, clearTimers, restartTimers, captures, stoppedBy>>
  /\ UNCHANGED outsidePipeline

\* the manager started and stopped by one client, with the fallbacks
PipelineNext ==
  \/ \E c \in Scenario : Connection(c)
  \/ \E c \in Scenario : ConnectCamera(c)
  \/ \E c \in Scenario : DisconnectCamera(c)
  \/ \E hdmi \in BOOLEAN : ProbeDone(hdmi)
  \/ ConfigDone
  \/ ProbeDoneSpawnError
  \/ HdmiSpawnErrorHandled
  \/ ConfigDoneSpawnError
  \/ SpawnErrorHandled
  \/ FailedSpawnClose
  \/ \E kind \in {"hdmi", "camera", "basic"} : StartedTimer(kind)
  \/ \E p \in Pids : ProcessClose(p)
  \/ ClearTimer

\* ------------------------------------------------- live-view poller: model
Loops == 1..MaxLoops

LiveViewInit ==
  /\ isRunning = FALSE
  /\ liveStarting = 0
  /\ loops = [l \in Loops |-> "unused"]
  /\ liveFrameCounter = 0

UnusedLoops == {l \in Loops : loops[l] = "unused"}

\* start() up to its await: no-op while running, else the flag is set and
\* the viewfinder command is issued
LiveStart ==
  /\ liveStarting < Cardinality(UnusedLoops)
  /\ IF isRunning
       THEN UNCHANGED <<isRunning, liveStarting>>
       ELSE /\ isRunning' = TRUE
            /\ liveStarting' = liveStarting + 1
  /\ UNCHANGED <<loops, liveFrameCounter>>
  /\ UNCHANGED outsideLiveView

\* captureLoop() from the test of its while to the await in captureFrame,
\* which takes the next temporary file name; or to its end when the flag
\* is cleared
Iterate(l) ==
  IF isRunning
    THEN /\ liveFrameCounter < MaxLiveFrames
         /\ loops' = [loops EXCEPT ![l] = "frame"]
         /\ liveFrameCounter' = liveFrameCounter + 1
    ELSE /\ loops' = [loops EXCEPT ![l] = "ended"]
         /\ UNCHANGED liveFrameCounter

\* start() resumes after the viewfinder command: captureLoop() is called
LiveStarted ==
  /\ liveStarting > 0
  /\ liveStarting' = liveStarting - 1
  /\ Iterate(CHOOSE l \in UnusedLoops : \A k \in UnusedLoops : l <= k)
  /\ UNCHANGED isRunning
  /\ UNCHANGED outsideLiveView

\* captureLoop() resumes with the frame, emits it and sleeps 500 ms
FrameCaptured(l) ==
  /\ loops[l] = "frame"
  /\ loops' = [loops EXCEPT ![l] = "sleep"]
  /\ UNCHANGED <<isRunning, liveStarting, liveFrameCounter>>
  /\ UNCHANGED outsideLiveView

\* captureLoop() resumes after its sleep and tests the flag again
SleepOver(l) ==
  /\ loops[l] = "sleep"
  /\ Iterate(l)
  /\ UNCHANGED <<isRunning, liveStarting>>
  /\ UNCHANGED outsideLiveView

\* stop() up to its await: the flag is cleared; captureProcess is never set
LiveStop ==
  /\ isRunning' = FALSE
  /\ UNCHANGED <<liveStarting, loops, liveFrameCounter>>
  /\ UNCHANGED outsideLiveView

LiveViewNext ==
  \/ LiveStart
  \/ LiveStarted
  \/ \E l \in Loops : FrameCaptured(l)
  \/ \E l \in Loops : SleepOver(l)
  \/ LiveStop

\* ---------------------------------------------------- hub: print-photo
PrintFailedMsg == "Printing failed"

PrintInit ==
  /\ printCaller = [id \in Calls |-> Null]
  /\ reported = [id \in Calls |-> FALSE]

\* the paths a client sends with print-photo: a printable photo, a photo that
\* passes validation but cannot be prepared, a path that names no file
PrintPaths == {<<"a", ".jpg">>, <<"c", ".png">>, <<"missing", ".jpg">>}

Prints == 1..MaxPrints

\* socket.on('print-photo'), up to its await: print-started is emitted and
\* printImage(data.path) is called
PrintPhoto(c, id, p) ==
  /\ c \in connected
  /\ id \in Prints
  /\ Emit(c, <<"print-started">>)
  /\ printCaller' = [printCaller EXCEPT ![id] = c]
  /\ PrintImageCall(id, p)
  /\ UNCHANGED <<connected, isStreamActive, captureState, inflight, reported>>
  /\ UNCHANGED outsidePrint

\* what the handler emits when printImage has settled
SettledEventAlwaysComplete(o) == <<"print-complete">>
SettledEvent(o) ==
  IF o = "resolved" THEN <<"print-complete">> ELSE <<"error", PrintFailedMsg>>

\* the print-photo handler resumes: printImage resolved or rejected
PrintSettled(id) ==
  /\ printCaller[id] # Null
  /\ ~reported[id]
  /\ outcome[id] # "pending"
  /\ reported' = [reported EXCEPT ![id] = TRUE]
  /\ Emit(printCaller[id], SettledEvent(outcome[id]))
  /\ UNCHANGED <<connected, isStreamActive, captureState, inflight, printCaller>>
  /\ UNCHANGED printerVars
  /\ UNCHANGED outsidePrint

\* a step of the controller on behalf of a call: the image is written, the
\* job is enqueued, the spooler command returns, the temporary file is removed
PrinterStep(id) ==
  \/ \E ok \in BOOLEAN : WriteOutput(id, ok)
  \/ CheckOutputAndEnqueue(id)
  \/ \E ok \in BOOLEAN : SendDone(id, ok)
  \/ CleanupDone(id)

\* the hub and the controller it calls; nothing in the server calls
\* cancelAllJobs
PrintNext ==
  \/ \E c \in Conns : Connection(c)
  \/ \E c \in Conns, id \in Prints, p \in PrintPaths : PrintPhoto(c, id, p)
  \/ \E id \in Prints : PrinterStep(id)
  \/ \E id \in Prints : PrintSettled(id)
  \/ TimerFired
  \/ Tick

\* ------------------------------------------- full-resolution capture: model
Tries == 1..MaxTries

\* filepath: photo_fullres_<timestamp>.jpg in the captures directory
FullResPath(id) == "captures/photo_fullres_" \o ToString(id) \o ".jpg"

NoTry == [socket |-> Null, at |-> "none", onDisk |-> FALSE, returned |-> "pending"]

FullResInit == fullRes = [id \in Tries |-> NoTry]

\* socket.on('try-full-resolution') up to the first await of
\* captureFullResolutionPhoto: the gphoto2 command is started
TryFullResolution(c, id) ==
  /\ c \in connected
  /\ fullRes[id].at = "none"
  /\ \A j \in Tries : j < id => fullRes[j].at # "none"
  /\ fullRes' = [fullRes EXCEPT ![id] = [NoTry EXCEPT !.socket = c, !.at = "command"]]
  /\ UNCHANGED outsideFullRes

\* the callback of exec: the command ended with or without an error, having
\* written the file (whole or in part) or not; an error goes to the catch block
CommandDone(id, error, wrote) ==
  /\ fullRes[id].at = "command"
  /\ fullRes' = [fullRes EXCEPT ![id].onDisk = wrote,
                                ![id].at = IF error THEN "catch" ELSE "access"]
  /\ UNCHANGED outsideFullRes

\* fs.access(filepath) settled: metadata is read of a file that exists, and
\* 'Full resolution file not created' is thrown otherwise
AccessDone(id) ==
  /\ fullRes[id].at = "access"
  /\ fullRes' = [fullRes EXCEPT ![id].at = IF fullRes[id].onDisk THEN "metadata" ELSE "catch"]
  /\ UNCHANGED outsideFullRes

\* what the hub's handler emits for what captureFullResolutionPhoto returned
\* or threw
FullResEvent(r) ==
  IF r = "rejected" THEN <<"full-resolution-unavailable", "Full resolution capture failed">>
  ELSE IF r # Null THEN <<"full-resolution-success", r>>
  ELSE <<"full-resolution-unavailable",
         "Camera in movie mode - full resolution capture not available">>

\* captureFullResolutionPhoto settles with r and the hub's handler resumes
FullResSettled(id, r) ==
  /\ Emit(fullRes[id].socket, FullResEvent(r))
  /\ UNCHANGED <<connected, isStreamActive, captureState, inflight>>
  /\ UNCHANGED <<printerVars, streamVars, printHubVars, clientVars, recentVars, extractorVars,
                 pipelineVars, liveViewVars>>

\* sharp(filepath).metadata() settled: the path is returned, or the image
\* cannot be read and the catch block is entered
MetadataDone(id, ok) ==
  /\ fullRes[id].at = "metadata"
  /\ IF ok
       THEN /\ fullRes' = [fullRes EXCEPT ![id].at = "done", ![id].returned = FullResPath(id)]
            /\ FullResSettled(id, FullResPath(id))
       ELSE /\ fullRes' = [fullRes EXCEPT ![id].at = "catch"]
            /\ UNCHANGED outsideFullRes

\* the catch block: fs.unlink(filepath), whose failure is ignored, then
\* return null
UnlinkKeepsFile(onDisk) == onDisk
Unlink(onDisk) == FALSE
CatchDone(id) ==
  /\ fullRes[id].at = "catch"
  /\ fullRes' = [fullRes EXCEPT ![id].at = "done", ![id].returned = Null,
                                ![id].onDisk = Unlink(@)]
  /\ FullResSettled(id, Null)

FullResNext ==
  \/ \E c \in Conns : Connection(c)
  \/ \E c \in Conns, id \in Tries : TryFullResolution(c, id)
  \/ \E id \in Tries, error, wrote \in BOOLEAN : CommandDone(id, error, wrote)
  \/ \E id \in Tries : AccessDone(id)
  \/ \E id \in Tries, ok \in BOOLEAN : MetadataDone(id, ok)
  \/ \E id \in Tries : CatchDone(id)

\* ------------------------------------------------- frame extractor: model
\* byte values: 0xFF, 0xD8, 0xD9 and one other
Bytes == {255, 216, 217, 0}

\* Buffer.from([0xFF, 0xD8]) and Buffer.from([0xFF, 0xD9])
StartMarker == <<255, 216>>
EndMarker == <<255, 217>>

\* a chunk that carries two complete frames
Burst == <<255, 216, 0, 255, 217, 255, 216, 255, 217>>

\* the chunks a data event carries
Chunks == UNION {[1..n -> Bytes] : n \in 1..MaxChunk} \cup {Burst}

ExtractorInit ==
  /\ buffer = << >>
  /\ lastHighQualityFrame = << >>
  /\ frameCounter = 0
  /\ received = << >>

\* the positions, counted from 0, at which marker occurs in data
Occurrences(data, marker) ==
  {i \in 0..(Len(data) - 2) : data[i + 1] = marker[1] /\ data[i + 2] = marker[2]}

\* data.indexOf(marker): the first position counted from 0, or -1
IndexOf(data, marker) ==
  IF Occurrences(data, marker) = {} THEN -1
  ELSE CHOOSE i \in Occurrences(data, marker) : \A j \in Occurrences(data, marker) : i <= j

\* data.slice(from, to) and data.slice(from), positions counted from 0
Slice(data, from, to) == SubSeq(data, from + 1, to)
SliceFrom(data, from) == SubSeq(data, from + 1, Len(data))

\* the test of the data handler on the two positions
FrameFound(startMarker, endMarker) ==
  startMarker # -1 /\ endMarker # -1 /\ endMarker > startMarker

\* if (buffer.length > 8 * 1024 * 1024) buffer = Buffer.alloc(0), scaled
Uncapped(data) == data
Capped(data) == IF Len(data) > HdmiBufferCap THEN << >> ELSE data

\* ffmpegProcess.stdout.on('data') of the HDMI path; emitted: the throttle
\* lets the frame through, and sharp hands it on as 'frame'
Data(chunk, emitted) ==
  /\ frameCounter < MaxExtracted
  /\ Len(received) < MaxReceived
  /\ received' = received \o chunk
  /\ LET data == buffer \o chunk
         startMarker == IndexOf(data, StartMarker)
         endMarker == IndexOf(data, EndMarker)
     IN IF FrameFound(startMarker, endMarker)
          THEN /\ lastHighQualityFrame' = Slice(data, startMarker, endMarker + 2)
               /\ frameCounter' = frameCounter + 1
               /\ lastFrame' = TRUE
               /\ IF emitted THEN Broadcast(<<"preview-frame">>) ELSE UNCHANGED log
               /\ buffer' = Capped(SliceFrom(data, endMarker + 2))
          ELSE /\ ~emitted
               /\ buffer' = Capped(data)
               /\ UNCHANGED <<lastHighQualityFrame, frameCounter, lastFrame, log>>
  /\ UNCHANGED <<connected, isStreamActive, captureState, inflight>>
  /\ UNCHANGED <<isStreaming, streamProcess, ffmpegProcess, proc, source, starting,
                 startedTimers, clearTimers, restartTimers, captures, stoppedBy>>
  /\ UNCHANGED <<printerVars, printHubVars, clientVars, recentVars, fullResVars, pipelineVars,
                 liveViewVars>>

ExtractorNext == \E chunk \in Chunks, emitted \in BOOLEAN : Data(chunk, emitted)

\* ------------------------------------------------- client: recent photos
\* if (this.recentPhotos.length > 9) slice(0, 9)
RecentLimit == 9

RecentInit ==
  /\ recentPhotos = << >>
  /\ added = << >>

OverLimitOffByOne(list) == Len(list) > RecentLimit + 1
OverLimit(list) == Len(list) > RecentLimit

\* list.unshift(p)
Unshift(list, p) == <<p>> \o list

\* addRecentPhoto(photoPath)
AddRecentPhoto(p) ==
  /\ recentPhotos' = IF OverLimit(Unshift(recentPhotos, p))
                       THEN SubSeq(Unshift(recentPhotos, p), 1, RecentLimit)
                       ELSE Unshift(recentPhotos, p)
  /\ added' = Append(added, p)

\* the paths of the photos listed
RecentPaths == {PhotoPath, "captures/other.jpg"}

\* a call of addRecentPhoto
AddPhoto(p) ==
  /\ Len(added) < MaxAdds
  /\ AddRecentPhoto(p)
  /\ UNCHANGED outsideRecent

RecentNext == \E p \in RecentPaths : AddPhoto(p)

\* --------------------------------------------------------- client: model
\* the kiosk's browser
Kiosk == "A"

\* time is counted in steps of 500 ms
PrewarmDelay == 4
AfterPrintDelay == 6
AfterErrorDelay == 10
CountdownTime == 7

Delays == 0..AfterErrorDelay
NoneSet == [r \in Delays |-> 0]
Set(bag, r) == [bag EXCEPT ![r] = @ + 1]
Pending(bag) == \E r \in Delays : bag[r] > 0
Later(bag) == [r \in Delays |-> IF r < AfterErrorDelay THEN bag[r + 1] ELSE 0]

ClientInit ==
  /\ appConnected = FALSE
  /\ appCapturing = FALSE
  /\ currentPhotoPath = Null
  /\ prewarmTimers = NoneSet
  /\ reprepareTimers = NoneSet
  /\ countdowns = NoneSet
  /\ printing = 0

SessionRoom == Len(log[Kiosk]) < MaxSession

\* updateCameraStatus(status)
UpdateCameraStatus(status) ==
  /\ appConnected' = status[2]
  /\ prewarmTimers' = IF status[2] THEN Set(prewarmTimers, PrewarmDelay) ELSE prewarmTimers

\* the client's handler of the error event
OnErrorWithoutRecovery ==
  /\ appCapturing' = FALSE
  /\ reprepareTimers' = reprepareTimers
OnError ==
  /\ appCapturing' = FALSE
  /\ reprepareTimers' = Set(reprepareTimers, AfterErrorDelay)

\* the browser connects: the hub's connection handler, then the client's
\* handler of the camera-status snapshot
ClientConnect ==
  /\ Kiosk \notin connected
  /\ connected' = connected \cup {Kiosk}
  /\ Emit(Kiosk, CameraStatus(isStreamActive))
  /\ captureState' = [captureState EXCEPT ![StateKey(Kiosk)] = InitialCaptureState]
  /\ UpdateCameraStatus(CameraStatus(isStreamActive))
  /\ UNCHANGED <<isStreamActive, inflight>>
  /\ UNCHANGED <<appCapturing, currentPhotoPath, reprepareTimers, countdowns, printing>>
  /\ UNCHANGED recentVars
  /\ UNCHANGED outsideClient

\* the manager announces stream-started or stream-ended: the hub's
\* subscription, then the client's handler of camera-status
StreamEvent(started) ==
  /\ Kiosk \in connected
  /\ SessionRoom
  /\ started # isStreamActive
  /\ IF started THEN OnStreamStarted ELSE OnStreamEnded
  /\ UpdateCameraStatus(IF started THEN StartedStatus ELSE EndedStatus)
  /\ UNCHANGED <<connected, captureState, inflight>>
  /\ UNCHANGED <<appCapturing, currentPhotoPath, reprepareTimers, countdowns, printing>>
  /\ UNCHANGED recentVars
  /\ UNCHANGED outsideClient

\* socket.emit('prepare-capture') and the hub's handler of it
EmitPrepareCapture ==
  captureState' = [captureState EXCEPT ![StateKey(Kiosk)] =
                     IF PrepareIgnored(@) THEN @ ELSE PreparedState(@)]

\* a timer of updateCameraStatus expires: prepare-capture
PrewarmTimer ==
  /\ prewarmTimers[0] > 0
  /\ prewarmTimers' = [prewarmTimers EXCEPT ![0] = @ - 1]
  /\ EmitPrepareCapture
  /\ UNCHANGED <<connected, isStreamActive, inflight, log>>
  /\ UNCHANGED <<appConnected, appCapturing, currentPhotoPath, reprepareTimers,
                 countdowns, printing>>
  /\ UNCHANGED recentVars
  /\ UNCHANGED outsideClient

\* a timer of the print-complete or error handler expires: prepare-capture
\* if the camera is connected
ReprepareTimer ==
  /\ reprepareTimers[0] > 0
  /\ reprepareTimers' = [reprepareTimers EXCEPT ![0] = @ - 1]
  /\ IF appConnected THEN EmitPrepareCapture ELSE UNCHANGED captureState
  /\ UNCHANGED <<connected, isStreamActive, inflight, log>>
  /\ UNCHANGED <<appConnected, appCapturing, currentPhotoPath, prewarmTimers,
                 countdowns, printing>>
  /\ UNCHANGED recentVars
  /\ UNCHANGED outsideClient

\* capturePhoto() up to its await: the guard on isCapturing, the flag, the
\* call of showCountdown
CapturePhotoCallUnguarded ==
  /\ appCapturing' = TRUE
  /\ countdowns' = Set(countdowns, CountdownTime)
CapturePhotoCall ==
  IF appCapturing
    THEN UNCHANGED <<appCapturing, countdowns>>
    ELSE /\ appCapturing' = TRUE
         /\ countdowns' = Set(countdowns, CountdownTime)

\* the operator taps the capture button, shown while the camera is
\* connected: capturePhoto()
CapturePhoto ==
  /\ appConnected
  /\ CapturePhotoCall
  /\ UNCHANGED <<appConnected, currentPhotoPath, prewarmTimers, reprepareTimers, printing>>
  /\ UNCHANGED hubVars
  /\ UNCHANGED recentVars
  /\ UNCHANGED outsideClient

\* the test of retakePhoto on the photo shown and the list:
\* this.currentPhotoPath && recentPhotos.length > 0 && recentPhotos[0] === this.currentPhotoPath
JustCaptured(current, list) ==
  /\ current # Null
  /\ Len(list) > 0
  /\ list[1] = current

\* the operator taps retake in the photo detail: hidePhotoDetail(), which
\* clears currentPhotoPath, then the test on currentPhotoPath and the list,
\* then capturePhoto(), which returns at once while isCapturing is set
RetakePhoto ==
  /\ currentPhotoPath # Null
  /\ currentPhotoPath' = Null
  /\ recentPhotos' = IF JustCaptured(currentPhotoPath', recentPhotos)
                       THEN Tail(recentPhotos)
                       ELSE recentPhotos
  /\ CapturePhotoCall
  /\ UNCHANGED <<appConnected, prewarmTimers, reprepareTimers, printing>>
  /\ UNCHANGED hubVars
  /\ UNCHANGED added
  /\ UNCHANGED outsideClient

\* the countdown of capturePhoto is over: execute-capture, the hub's handler
\* up to its await, and the client's handler of what it emitted
CountdownOver ==
  /\ countdowns[0] > 0
  /\ SessionRoom
  /\ countdowns' = [countdowns EXCEPT ![0] = @ - 1]
  /\ IF NotReady(CS(Kiosk))
       THEN /\ Emit(Kiosk, ErrorEvent(NotReadyMsg))
            /\ captureState' = [captureState EXCEPT ![StateKey(Kiosk)] = FailedState(@, NotReadyMsg)]
            /\ OnError
            /\ UNCHANGED inflight
       ELSE /\ captureState' = [captureState EXCEPT ![StateKey(Kiosk)].isCapturing = TRUE]
            /\ Emit(Kiosk, <<"capture-started">>)
            /\ inflight' = [inflight EXCEPT ![Kiosk] = @ + 1]
            /\ UNCHANGED <<appCapturing, reprepareTimers>>
  /\ UNCHANGED <<connected, isStreamActive>>
  /\ UNCHANGED <<appConnected, currentPhotoPath, prewarmTimers, printing>>
  /\ UNCHANGED recentVars
  /\ UNCHANGED outsideClient

\* captureFrameFromStream settled: the hub emits capture-complete or error;
\* onCaptureComplete lists and shows the photo, the error handler re-enables the button
CaptureSettled(ok) ==
  /\ inflight[Kiosk] > 0
  /\ SessionRoom
  /\ IF ok
       THEN /\ Resolved(Kiosk, PhotoPath)
            /\ AddRecentPhoto(PhotoPath)
            /\ currentPhotoPath' = PhotoPath
            /\ UNCHANGED <<appCapturing, reprepareTimers>>
       ELSE /\ Rejected(Kiosk)
            /\ OnError
            /\ UNCHANGED <<currentPhotoPath, recentVars>>
  /\ UNCHANGED <<connected, isStreamActive>>
  /\ UNCHANGED <<appConnected, prewarmTimers, countdowns, printing>>
  /\ UNCHANGED outsideClient

\* the operator taps print in the photo detail: print-photo, the hub emits
\* print-started and calls printImage
PrintCurrentPhoto ==
  /\ currentPhotoPath # Null
  /\ SessionRoom
  /\ currentPhotoPath' = Null
  /\ Emit(Kiosk, <<"print-started">>)
  /\ printing' = printing + 1
  /\ UNCHANGED <<connected, isStreamActive, captureState, inflight>>
  /\ UNCHANGED <<appConnected, appCapturing, prewarmTimers, reprepareTimers, countdowns>>
  /\ UNCHANGED recentVars
  /\ UNCHANGED outsideClient

\* printImage settled: the hub emits print-complete or error; the client
\* re-enables the button and schedules prepare-capture
PrintResult(ok) ==
  /\ printing > 0
  /\ SessionRoom
  /\ printing' = printing - 1
  /\ IF ok
       THEN /\ Emit(Kiosk, <<"print-complete">>)
            /\ appCapturing' = FALSE
            /\ reprepareTimers' = Set(reprepareTimers, AfterPrintDelay)
       ELSE /\ Emit(Kiosk, <<"error", PrintFailedMsg>>)
            /\ OnError
  /\ UNCHANGED <<connected, isStreamActive, captureState, inflight>>
  /\ UNCHANGED <<appConnected, currentPhotoPath, prewarmTimers, countdowns>>
  /\ UNCHANGED recentVars
  /\ UNCHANGED outsideClient

\* 500 ms pass; a timer that is due expires first
ClientTick ==
  /\ prewarmTimers[0] = 0 /\ reprepareTimers[0] = 0 /\ countdowns[0] = 0
  /\ Pending(prewarmTimers) \/ Pending(reprepareTimers) \/ Pending(countdowns)
  /\ prewarmTimers' = Later(prewarmTimers)
  /\ reprepareTimers' = Later(reprepareTimers)
  /\ countdowns' = Later(countdowns)
  /\ UNCHANGED <<appConnected, appCapturing, currentPhotoPath, printing>>
  /\ UNCHANGED hubVars
  /\ UNCHANGED recentVars
  /\ UNCHANGED outsideClient

ClientNext ==
  \/ ClientConnect
  \/ \E started \in BOOLEAN : StreamEvent(started)
  \/ PrewarmTimer
  \/ ReprepareTimer
  \/ CapturePhoto
  \/ RetakePhoto
  \/ CountdownOver
  \/ \E ok \in BOOLEAN : CaptureSettled(ok)
  \/ PrintCurrentPhoto
  \/ \E ok \in BOOLEAN : PrintResult(ok)
  \/ ClientTick

vars == <<hubVars, printerVars, streamVars, printHubVars, clientVars, recentVars, restVars>>

Init ==
  /\ HubInit /\ PrinterInit /\ StreamInit /\ PrintInit /\ ClientInit /\ RecentInit
  /\ FullResInit /\ ExtractorInit /\ PipelineInit /\ LiveViewInit

SpecHub == Init /\ [][HubNext]_vars

SpecPrinter == Init /\ [][PrinterNext]_vars

SpecStream == Init /\ [][StreamNext]_vars

SpecCapture == Init /\ [][CaptureNext]_vars

SpecPrint == Init /\ [][PrintNext]_vars

SpecClient == Init /\ [][ClientNext]_vars

SpecRecent == Init /\ [][RecentNext]_vars

SpecFullRes == Init /\ [][FullResNext]_vars

SpecExtractor == Init /\ [][ExtractorNext]_vars

SpecPipeline == Init /\ [][PipelineNext]_vars

SpecSharedCamera == Init /\ [][SharedCameraNext]_vars

SpecLiveView == Init /\ [][LiveViewNext]_vars

\* ------------------------------------------------------- hub: properties
HandlerOf(c) ==
  \/ Connection(c)
  \/ PrepareCapture(c)
  \/ ExecuteCapture(c)
  \/ \E r \in CaptureResults : CaptureResolved(c, r)
  \/ CaptureRejected(c)

\* C1: an execute-capture handled while the connection's CaptureState is not
\* prepared emits exactly the error event with the "not ready" message, no
\* capture-started, and starts no captureFrameFromStream call.
C1_NotPreparedRejected ==
  [][\A c \in Conns :
       (ExecuteCapture(c) /\ ~captureState[c].prepared) =>
         /\ log'[c] = Append(log[c], <<"error", CaptureFailedMsg, NotReadyMsg>>)
         /\ inflight' = inflight]_vars

C1_Witness ==
  \E c \in Conns :
    /\ Len(log[c]) = 2
    /\ log[c][2] = <<"error", CaptureFailedMsg, NotReadyMsg>>
    /\ inflight[c] = 0

\* C2: when the frame extraction of a prepared execute-capture succeeds,
\* capture-complete{path} is emitted after its capture-started, CaptureState is
\* left {isCapturing:false, prepared:false, error:absent}, and an
\* execute-capture handled next without a prepare-capture is rejected.
C2_SuccessResetsState ==
  [][\A c \in Conns :
       /\ \A r \in CaptureResults :
            log'[c] = Append(log[c], <<"capture-complete", r>>) =>
              /\ Last(log[c])[1] # "camera-status"
              /\ Count(log[c], "capture-started") > Count(log[c], "capture-complete")
              /\ captureState'[c] = [isCapturing |-> FALSE, prepared |-> FALSE, error |-> Null]
       /\ (captureState[c] = [isCapturing |-> FALSE, prepared |-> FALSE, error |-> Null]
             /\ ExecuteCapture(c)) =>
              /\ Last(log'[c])[1] = "error"
              /\ inflight' = inflight]_vars

C2_Witness ==
  \E c \in Conns :
    /\ Len(log[c]) = 4
    /\ log[c][2] = <<"capture-started">>
    /\ log[c][3] = <<"capture-complete", PhotoPath>>
    /\ log[c][4] = <<"error", CaptureFailedMsg, NotReadyMsg>>

\* C3: at most one capture per connection is in flight at any time.
C3_AtMostOneInFlight == \A c \in Conns : inflight[c] <= 1

\* C4: a rejected captureFrameFromStream emits exactly one error event to the
\* triggering connection and no capture-complete, leaves CaptureState
\* unprepared with the error recorded; while unprepared every execute-capture
\* is rejected, and a prepare-capture makes execute-capture acceptable again.
C4_FailureNeedsPrepare ==
  [][\A c \in Conns :
       /\ CaptureRejected(c) =>
            /\ log'[c] = Append(log[c], <<"error", CaptureFailedMsg, FrameErrorMsg>>)
            /\ \A d \in Conns \ {c} : log'[d] = log[d]
            /\ ~captureState'[c].prepared
            /\ captureState'[c].error = FrameErrorMsg
       /\ (captureState[c].error # Null /\ ExecuteCapture(c)) =>
            /\ inflight' = inflight
            /\ Last(log'[c])[1] = "error"
       /\ (captureState[c].error # Null /\ captureState'[c].prepared) =>
            /\ PrepareCapture(c)
            /\ captureState'[c].error = Null
       /\ (captureState[c].error # Null /\ PrepareCapture(c)) =>
            /\ captureState'[c].prepared
            /\ captureState'[c].error = Null]_vars

\* a capture failed, an execute-capture was rejected, and after a
\* prepare-capture the next execute-capture was accepted
C4_Witness ==
  \E c \in Conns :
    /\ Len(log[c]) = 5
    /\ log[c][3] = <<"error", CaptureFailedMsg, FrameErrorMsg>>
    /\ log[c][4] = <<"error", CaptureFailedMsg, NotReadyMsg>>
    /\ log[c][5] = <<"capture-started">>

\* C5: CaptureState is per connection: a handler of one connection never
\* changes another connection's CaptureState, and a connection's
\* execute-capture is accepted exactly when that connection is prepared.
C5_PerConnectionState ==
  [][\A c \in Conns :
       /\ HandlerOf(c) => \A d \in Conns \ {c} : captureState'[d] = captureState[d]
       /\ ExecuteCapture(c) =>
            (inflight'[c] = inflight[c] + 1 <=> captureState[c].prepared)]_vars

\* A has a capture in flight while B, never prepared, has just been rejected,
\* and the other way round a failure on A left B prepared
C5_Witness ==
  \E c, d \in Conns :
    /\ c # d
    /\ captureState[c].error = FrameErrorMsg
    /\ captureState[d].prepared
    /\ inflight[d] = 0
    /\ Len(log[d]) = 2
    /\ log[d][2] = <<"error", CaptureFailedMsg, NotReadyMsg>>

\* --------------------------------------------------- printer: properties
Range(q) == {q[i] : i \in 1..Len(q)}

Pos(q, x) == CHOOSE i \in 1..Len(q) : q[i] = x

\* C6: sendToPrinter is invoked for one job at a time, in the order the jobs
\* were pushed, and only after the previous job's caller has been resolved or
\* rejected: never two invocations in flight.
C6_OneAtATimeInPushOrder ==
  /\ Cardinality({id \in Calls : phase[id] = "printing"}) <= 1
  /\ Range(submitted) \subseteq Range(pushed)
  /\ \A i, j \in 1..Len(submitted) :
       i < j => /\ outcome[submitted[i]] # "pending"
                /\ Pos(pushed, submitted[i]) < Pos(pushed, submitted[j])

\* three jobs, pushed in another order than they were requested, all submitted
C6_Witness ==
  /\ Len(submitted) = 3
  /\ submitted = pushed
  /\ pushed # <<1, 2, 3>>
  /\ \A id \in Calls : id \in Range(submitted) => phase[id] = "done"

\* C7: no job is submitted to the spooler before the cooldown since the
\* previous job's resolution has elapsed.
C7_CooldownBeforeSubmit ==
  [][submitted' # submitted => sinceDone >= Cooldown]_vars

\* C8: a job leaves the queue only to be processed, and so with its outcome
\* delivered: a pushed job is in the queue, or in processQueue's hands, or its
\* caller has been resolved or rejected.
C8_NoJobLost ==
  \A id \in Range(pushed) :
    \/ id \in Range(printQueue)
    \/ phase[id] = "printing"
    \/ outcome[id] # "pending"

\* C9: for every job processQueue dequeued, unlink of the job's _print.jpg is
\* called exactly once, after sendToPrinter returned (resolved or rejected)
\* and before isPrinting is cleared, at which point the file is gone.
C9_CleanupOnceBeforeIdle ==
  /\ [](\A id \in Calls :
          /\ phase[id] \in {"queued", "printing"} => unlinkCalls[id] = 0
          /\ phase[id] = "cleanup" =>
               unlinkCalls[id] = 1 /\ isPrinting /\ outcome[id] # "pending"
          /\ phase[id] = "done" => unlinkCalls[id] = 1 /\ outcome[id] # "pending")
  /\ [][(isPrinting /\ ~isPrinting') =>
          \E id \in Calls :
            /\ phase[id] = "cleanup"
            /\ phase'[id] = "done"
            /\ unlinkCalls'[id] = 1
            /\ OutputPath(src[id]) \notin files']_vars

\* one job resolved and one job rejected, both cleaned up
C9_Witness ==
  \E i, j \in Calls :
    /\ phase[i] = "done" /\ outcome[i] = "resolved" /\ unlinkCalls[i] = 1
    /\ phase[j] = "done" /\ outcome[j] = "rejected" /\ unlinkCalls[j] = 1
    /\ ~isPrinting

\* the inputs that fail pre-flight validation
C10_FailsPreflight(p) ==
  \/ ~Catalog[p].onDisk
  \/ Catalog[p].size = 0
  \/ Catalog[p].size > 50 * 1024 * 1024
  \/ Catalog[p].width = 0 \/ Catalog[p].height = 0
  \/ Catalog[p].width < 100 \/ Catalog[p].height < 100
  \/ Catalog[p].format \notin {"jpeg", "jpg", "png", "webp", "tiff", "gif"}

\* C10: printImage on an input that fails pre-flight validation rejects
\* without enqueuing a job and without a spooler command; the rejection
\* leaves the queue and the busy flag unchanged.
C10_InvalidInputNeverQueued ==
  /\ [](\A id \in Calls :
          (phase[id] # "none" /\ C10_FailsPreflight(src[id])) =>
            /\ phase[id] = "invalid"
            /\ outcome[id] = "rejected"
            /\ id \notin Range(pushed) \cup Range(printQueue) \cup Range(submitted)
            /\ OutputPath(src[id]) \notin files)
  /\ [][\A id \in Calls :
          (phase[id] = "none" /\ phase'[id] # "none"
             /\ C10_FailsPreflight(src'[id])) =>
            /\ outcome'[id] = "rejected"
            /\ UNCHANGED <<printQueue, isPrinting, pushed, submitted>>]_vars

\* a 99-pixel-high image and a missing file were rejected while a job was
\* with the spooler and another waited
C10_Witness ==
  \E i, j \in Calls :
    /\ phase[i] = "invalid" /\ src[i] = <<"small", ".jpg">>
    /\ phase[j] = "invalid" /\ src[j] = <<"missing", ".jpg">>
    /\ isPrinting

\* no job was dropped from the queue: cancelAllJobs has not emptied a queue
\* that held jobs
NoneDropped == \A id \in Range(pushed) : id \in Range(printQueue) \cup Range(submitted)

\* a timer of processQueue is pending
WakeUpPending == \E r \in 0..Cooldown : timers[r] > 0

\* the jobs processQueue has dequeued and not finished with
Submitting == {id \in Calls : phase[id] = "printing"}
InHand == {id \in Calls : phase[id] \in {"printing", "cleanup"}}

\* without cancelAllJobs no job is stranded: while a job waits, a job is in
\* processQueue's hands or a timer will call processQueue; what was dequeued
\* is with the spooler or has had its caller resolved or rejected; once
\* nothing waits, runs or is scheduled, every enqueued job has been submitted
\* and settled
NoJobStranded ==
  /\ printQueue # << >> => (isPrinting \/ WakeUpPending)
  /\ isPrinting => InHand # {}
  /\ \A id \in Range(submitted) : phase[id] = "printing" \/ outcome[id] # "pending"
  /\ (printQueue = << >> /\ InHand = {}) =>
       \A id \in Range(pushed) : id \in Range(submitted) /\ outcome[id] # "pending"

\* C29 as stated: in every run without cancelAllJobs no enqueued job is
\* stranded, and isPrinting is false whenever the queue is empty and no
\* submission to the spooler is in flight.
C29_DrainsAndIdleWithoutSubmission ==
  NoneDropped =>
    /\ NoJobStranded
    /\ (printQueue = << >> /\ Submitting = {}) => ~isPrinting

\* C29: in every run without cancelAllJobs no enqueued job is stranded, and
\* isPrinting is false whenever the queue is empty and processQueue holds no
\* job: none with the spooler and none whose temporary file is being removed.
C29_DrainsAndIdle ==
  NoneDropped =>
    /\ NoJobStranded
    /\ (printQueue = << >> /\ InHand = {}) => ~isPrinting

\* three jobs went through the queue, the third is having its temporary file
\* removed after its caller was told
C29_Witness ==
  /\ NoneDropped
  /\ Len(submitted) = 3
  /\ printQueue = << >>
  /\ \E id \in Calls : phase[id] = "cleanup" /\ outcome[id] # "pending"
  /\ isPrinting

\* ---------------------------------------------------- stream: properties
\* nothing of the manager is running or pending: no child process is alive,
\* no startStream call is at an await and no timer is set
Quiescent ==
  /\ Alive(proc) = {}
  /\ starting = NoStarts
  /\ startedTimers = NoStartedTimers
  /\ clearTimers = 0
  /\ restartTimers = 0

\* C11: once the pipeline stopped by a disconnect-camera has wound down
\* (every child closed, nothing pending), the hub's stream-active flag is
\* false, so that a later connect-camera starts the stream again.
C11_DisconnectClearsFlag ==
  (stoppedBy = "disconnect-camera" /\ Quiescent) => ~isStreamActive

\* what every log looks like after ev was sent to all connected clients
SentToAll(ev) ==
  \A c \in Conns :
    log'[c] = IF c \in connected THEN Append(log[c], ev) ELSE log[c]

\* C12 as stated: when a started pipeline is announced, every connected
\* client receives the same camera-status{connected:true, streamActive:true}
\* and the hub's stream-active flag is true from then on.
C12_ActiveFromThenOn ==
  [][/\ (\E kind \in {"hdmi", "camera"} : StartedTimer(kind) /\ Announces(kind)) =>
          isStreamActive' /\ SentToAll(<<"camera-status", TRUE, TRUE>>)
     /\ isStreamActive => isStreamActive']_vars

\* C12 (amended): when a started pipeline is announced, every connected
\* client receives the same camera-status{connected:true, streamActive:true}
\* and the hub's stream-active flag is true from then until the next
\* stream-ended event, which is the only step that clears it.
C12_ActiveUntilStreamEnded ==
  [][/\ (\E kind \in {"hdmi", "camera"} : StartedTimer(kind) /\ Announces(kind)) =>
          isStreamActive' /\ SentToAll(<<"camera-status", TRUE, TRUE>>)
     /\ (isStreamActive /\ ~isStreamActive') =>
          \E p \in Pids : ProcessClose(p) /\ isStreaming]_vars

C12_Witness ==
  /\ connected = Conns
  /\ isStreamActive
  /\ \A c \in Conns : log[c] = << <<"camera-status", FALSE, FALSE>>,
                                  <<"camera-status", TRUE, TRUE>> >>

\* C13: when a child of the pipeline closes while the manager's running flag
\* is still true, the hub's stream-active flag becomes false and every
\* connected client receives camera-status{connected:false}, and nothing
\* else, in particular no error event, is sent to any client.
C13_CloseWhileStreamingBroadcast ==
  [][\A p \in Pids :
       (ProcessClose(p) /\ isStreaming) =>
         /\ ~isStreaming'
         /\ ~isStreamActive'
         /\ SentToAll(<<"camera-status", FALSE, FALSE>>)]_vars

C13_Witness ==
  /\ connected = Conns
  /\ ~isStreamActive
  /\ stoppedBy = "none"
  /\ \E p \in Pids : proc[p].state = "closed"
  /\ \A c \in Conns : log[c] = << <<"camera-status", FALSE, FALSE>>,
                                  <<"camera-status", TRUE, TRUE>>,
                                  <<"camera-status", FALSE, FALSE>> >>

\* C14: a new connection receives exactly one event, a camera-status whose
\* connected and streamActive fields both equal the hub's stream-active flag
\* at that moment, whatever stream-started and stream-ended events preceded.
C14_SnapshotOnConnection ==
  [][\A c \in Conns :
       Connection(c) =>
         /\ log[c] = << >>
         /\ log'[c] = << <<"camera-status", isStreamActive, isStreamActive>> >>
         /\ \A d \in Conns \ {c} : log'[d] = log[d]]_vars

C14_Witness ==
  \E c \in Conns, d \in Conns :
    /\ log[d] = << <<"camera-status", FALSE, FALSE>>, <<"camera-status", TRUE, TRUE>> >>
    /\ log[c] = << <<"camera-status", TRUE, TRUE>> >>

\* -------------------------------------------------- scenario: properties
Prefix(s, k) == SubSeq(s, 1, k)

\* the last camera-status event of a log that has one
LastStatus(s) ==
  s[CHOOSE i \in 1..Len(s) :
      /\ s[i][1] = "camera-status"
      /\ \A j \in (i + 1)..Len(s) : s[j][1] # "camera-status"]

\* the log is a beginning of: camera-status(false), camera-status(true),
\* preview-frame*, capture-started, capture-complete{path}
InClaimedOrder(s) ==
  \A i \in 1..Len(s) :
    IF i = 1 THEN s[1] = <<"camera-status", FALSE, FALSE>>
    ELSE IF i = 2 THEN s[2] = <<"camera-status", TRUE, TRUE>>
    ELSE \/ /\ s[i] \in {<<"preview-frame">>, <<"capture-started">>}
            /\ s[i - 1] \in {<<"camera-status", TRUE, TRUE>>, <<"preview-frame">>}
         \/ /\ s[i] = <<"capture-complete", PhotoPath>>
            /\ s[i - 1] = <<"capture-started">>

\* the client emitted execute-capture only after streaming had started
ExecutedAfterStart(s) ==
  \A i \in 1..Len(s) :
    s[i][1] \in {"capture-started", "error"} =>
      \E j \in 1..(i - 1) : s[j] = <<"camera-status", TRUE, TRUE>>

\* no child of the pipeline was signalled or has closed
PipelineIntact == \A p \in Pids : proc[p].state \in {"unused", "running"}

C17_CompleteCarriesPath ==
  \A c \in Scenario :
    \A i \in 1..Len(log[c]) :
      log[c][i][1] = "capture-complete" => log[c][i][2] # Undefined

\* a step of an execute-capture handler or of its captureFrameFromStream call
CaptureStep ==
  \/ \E c \in Scenario : ExecuteCaptureOnStream(c)
  \/ \E i \in 1..MaxCaptures, ok \in BOOLEAN :
       FrameSaved(i, ok) \/ PhotoTaken(i, ok) \/ FallbackSaved(i, ok)

\* C18: handling execute-capture never stops or restarts the pipeline: no
\* step of a capture changes the manager's running flag or signals one of
\* its child processes.
C18_CaptureLeavesStreamAlone ==
  [][CaptureStep => UNCHANGED <<isStreaming, proc>>]_vars

\* --------------------------------------------------- print-photo: properties
PrintsOf(c) == {id \in Prints : printCaller[id] = c}

\* no step of the controller or of a print-photo handler is left to take: no
\* file operation or spooler command is running, no timer is set and no
\* settled call waits for its handler
PrintQuiescent ==
  /\ \A id \in Prints : phase[id] \notin {"writing", "checking", "printing", "cleanup"}
  /\ \A r \in 0..Cooldown : timers[r] = 0
  /\ \A id \in Prints : (printCaller[id] # Null /\ outcome[id] # "pending") => reported[id]

\* C16: every print-photo{path} yields, on the triggering connection only,
\* print-started followed by exactly one of print-complete (printImage
\* resolved) or error (printImage rejected), never both and never before
\* print-started; once the controller has nothing left to do, every
\* print-photo has had its result.
C16_StartedThenOneResult ==
  /\ [](\A c \in Conns :
          /\ Count(log[c], "print-started") = Cardinality(PrintsOf(c))
          /\ Count(log[c], "print-complete")
               = Cardinality({id \in PrintsOf(c) : reported[id] /\ outcome[id] = "resolved"})
          /\ Count(log[c], "error")
               = Cardinality({id \in PrintsOf(c) : reported[id] /\ outcome[id] = "rejected"})
          /\ \A k \in 1..Len(log[c]) :
               Count(Prefix(log[c], k), "print-complete") + Count(Prefix(log[c], k), "error")
                 <= Count(Prefix(log[c], k), "print-started"))
  /\ [][\A id \in Prints : reported[id] => reported'[id] /\ outcome'[id] = outcome[id]]_vars
  /\ [](PrintQuiescent => \A id \in Prints : printCaller[id] # Null => reported[id])

C16_Witness ==
  /\ log["A"] = << <<"camera-status", FALSE, FALSE>>, <<"print-started">>, <<"print-complete">> >>
  /\ log["B"] = << <<"camera-status", FALSE, FALSE>>, <<"print-started">>,
                   <<"error", PrintFailedMsg>> >>

\* -------------------------------------------------------- client: properties
\* C19: with the camera connected and the client pre-warming as specified,
\* every execute-capture the client emits at the end of a countdown finds the
\* connection's CaptureState prepared and error-free.
C19_ExecuteFindsPrepared ==
  [][(CountdownOver /\ appConnected /\ isStreamActive) =>
       (CS(Kiosk).prepared /\ CS(Kiosk).error = Null)]_vars

\* C20: after any sequence of addRecentPhoto calls the recent-photos list
\* holds at most 9 entries, most recent first: its entries are the last
\* calls' photos in reverse call order, so the 10th addition drops the oldest.
C20_NineMostRecentFirst ==
  /\ Len(recentPhotos) = IF Len(added) < 9 THEN Len(added) ELSE 9
  /\ \A i \in 1..Len(recentPhotos) : recentPhotos[i] = added[Len(added) - i + 1]

C20_Witness ==
  /\ Len(added) = 10
  /\ added[1] # added[2]
  /\ Len(recentPhotos) = 9
  /\ recentPhotos[1] = added[10]
  /\ recentPhotos[9] = added[2]

\* C21: when the client has handled capture-complete, its in-flight flag
\* isCapturing is false, so that the operator can start another capture
\* sequence at once.
C21_CaptureCompleteClearsFlag ==
  [][CaptureSettled(TRUE) => ~appCapturing']_vars

\* C22: retake removes the photo shown from the recent-photos list when it
\* is the list's first entry, and leaves the list unchanged otherwise.
C22_RetakeRemovesFirst ==
  [][RetakePhoto =>
       recentPhotos' = IF JustCaptured(currentPhotoPath, recentPhotos)
                         THEN Tail(recentPhotos)
                         ELSE recentPhotos]_vars

\* the detail shown is the one opened by the last event, a capture-complete
ShownAfterCaptureComplete ==
  /\ currentPhotoPath # Null
  /\ Len(log[Kiosk]) > 0
  /\ Last(log[Kiosk])[1] = "capture-complete"

\* C23: retake on the detail shown after a capture-complete starts the
\* capture sequence again: a countdown starts, at the end of which
\* execute-capture is emitted.
C23_RetakeStartsCountdown ==
  [][(RetakePhoto /\ ShownAfterCaptureComplete) =>
       countdowns'[CountdownTime] = countdowns[CountdownTime] + 1]_vars

\* the step makes the hub send an error event to the client
ErrorReceived ==
  /\ Len(log'[Kiosk]) = Len(log[Kiosk]) + 1
  /\ Last(log'[Kiosk])[1] = "error"

\* C24: on every error event the client clears its in-flight flag at once
\* and schedules the recovery; when the recovery delay expires with the
\* camera connected, prepare-capture is emitted and leaves the connection's
\* CaptureState prepared and free of error.
C24_ErrorRecovery ==
  [][/\ ErrorReceived =>
          /\ ~appCapturing'
          /\ reprepareTimers'[AfterErrorDelay] = reprepareTimers[AfterErrorDelay] + 1
     /\ (ReprepareTimer /\ appConnected) =>
          /\ captureState'[StateKey(Kiosk)].prepared
          /\ captureState'[StateKey(Kiosk)].error = Null]_vars

\* a capture failed, and the recovery timer has re-armed the connection
C24_Witness ==
  /\ log[Kiosk] = << CameraStatus(FALSE), StartedStatus, <<"capture-started">>,
                     ErrorEvent(FrameErrorMsg) >>
  /\ ~Pending(reprepareTimers)
  /\ ~appCapturing
  /\ CS(Kiosk).prepared
  /\ CS(Kiosk).error = Null

\* the live processes of a pipeline: gphoto2 --capture-movie, and ffmpeg
CaptureMovieProcesses == {p \in Alive(proc) : proc[p].kind \in {"gphoto2", "basic"}}
TranscoderProcesses == {p \in Alive(proc) : proc[p].kind \in {"hdmi", "ffmpeg"}}

\* C30: at any time at most one gphoto2 --capture-movie process is alive,
\* and at most one ffmpeg process.
C30_OnePipeline ==
  /\ Cardinality(CaptureMovieProcesses) <= 1
  /\ Cardinality(TranscoderProcesses) <= 1

\* C28: a prepare-capture received while the connection's CaptureState has
\* isCapturing and prepared both true changes nothing in it; in every other
\* state it leaves {isCapturing: false, prepared: true, error: none}; in both
\* cases nothing is emitted, no capture is started and the stream manager is
\* left alone.
C28_PrepareFrame ==
  [][\A c \in Conns :
       PrepareCapture(c) =>
         /\ captureState'[c] = IF captureState[c].isCapturing /\ captureState[c].prepared
                                 THEN captureState[c]
                                 ELSE [isCapturing |-> FALSE, prepared |-> TRUE, error |-> Null]
         /\ \A d \in Conns \ {c} : captureState'[d] = captureState[d]
         /\ UNCHANGED <<connected, isStreamActive, inflight, log, streamVars>>]_vars

\* a prepare-capture has re-armed one connection after an error, while the
\* other connection is capturing, where a prepare-capture is ignored
C28_Witness ==
  \E c \in Conns : \E d \in Conns \ {c} :
    /\ Len(log[c]) > 0
    /\ Last(log[c])[1] = "error"
    /\ CS(c) = [isCapturing |-> FALSE, prepared |-> TRUE, error |-> Null]
    /\ CS(d).isCapturing /\ CS(d).prepared
    /\ inflight[d] > 0

\* C26: a startStream call made while isStreaming is true spawns no process
\* and changes nothing in the manager, so a connect-camera event that reaches
\* a streaming manager creates no second pipeline.
C26_StartStreamIdempotent ==
  [][((\E c \in Conns : ConnectCamera(c)) /\ isStreaming) => UNCHANGED streamVars]_vars

\* both clients are connected and a pipeline started by connect-camera runs
\* unannounced: a further connect-camera calls startStream while streaming
C26_Witness ==
  /\ connected = Conns
  /\ isStreaming
  /\ ~isStreamActive
  /\ starting = NoStarts
  /\ Alive(proc) # {}
  /\ \E c \in Conns : ENABLED ConnectCamera(c)

\* ----------------------------------- full-resolution capture: properties
\* the tries of a socket that have settled
TriesSettled(c) == {id \in Tries : fullRes[id].socket = c /\ fullRes[id].at = "done"}

MatchedStart(data) ==
  LET matched == {i \in Occurrences(data, StartMarker) :
                    \E j \in Occurrences(data, EndMarker) : j > i}
  IN IF matched = {} THEN -1 ELSE CHOOSE i \in matched : \A k \in matched : i <= k
EndAfter(data, start) ==
  LET after == {j \in Occurrences(data, EndMarker) : j > start}
  IN IF after = {} THEN -1 ELSE CHOOSE j \in after : \A k \in after : j <= k

\* C27: whenever the bytes held and received contain a start marker FF D8
\* followed later by an end marker FF D9, whatever precedes the start marker,
\* the data handler yields exactly one frame, the bytes from that start
\* marker through that end marker, and keeps only the bytes after the end
\* marker in the buffer.
C27_FrameBetweenMarkers ==
  [][\A chunk \in Chunks :
       LET data == buffer \o chunk
           start == MatchedStart(data)
           end == EndAfter(data, start)
       IN ((\E emitted \in BOOLEAN : Data(chunk, emitted)) /\ start # -1) =>
            /\ lastHighQualityFrame' = Slice(data, start, end + 2)
            /\ frameCounter' = frameCounter + 1
            /\ buffer' = SliceFrom(data, end + 2)]_vars
\* the captureFrameFromStream calls that have stopped the stream and are
\* between stopStream and the download of the photo
Shooting == {i \in DOMAIN captures : captures[i].at = "shoot"}

\* C31: captures of two prepared connections are serialized: at most one
\* captureFrameFromStream call is in its stop-stream / capture-and-download /
\* restart sequence at a time.
C31_CaptureSerialized == Cardinality(Shooting) <= 1

\* the stages of startStream as steps: the HDMI stage is entered when a
\* startStream call reaches its probes, the high-resolution stage when
\* startGPhoto2Fallback is called, the basic stage when startBasicStream is
HdmiEntered == starting.probe' > starting.probe
HighResEntered == starting.config' > starting.config
BasicEntered == startedTimers.basic' > startedTimers.basic
HdmiProbeFailed == starting.probe' = starting.probe - 1 /\ failedSpawn' = failedSpawn
HdmiStartupFailed == failedSpawn = "hdmiError" /\ failedSpawn' = "hdmiClose"
TranscoderFailed == failedSpawn = "error" /\ failedSpawn' = "close"

C33_BufferWithinCap == Len(buffer) <= HdmiBufferCap

\* more bytes than the cap were received without a frame among them, and the
\* buffer was emptied
C33_Witness ==
  /\ Len(received) > HdmiBufferCap
  /\ frameCounter = 0
  /\ buffer = << >>

\* the complete frames of data in order: from a start marker through the
\* first end marker after it, then on from behind that end marker
RECURSIVE Frames(_)
Frames(data) ==
  LET start == MatchedStart(data)
      end == EndAfter(data, start)
  IN IF start = -1 THEN << >>
     ELSE <<Slice(data, start, end + 2)>> \o Frames(SliceFrom(data, end + 2))

\* C34: after each chunk lastHighQualityFrame is the most recent complete
\* frame of all bytes received so far, and no complete frame is left in the
\* buffer.
C34_LatestFrameKept ==
  /\ Frames(received) # << >> => lastHighQualityFrame = Last(Frames(received))
  /\ Frames(buffer) = << >>

\* the countdowns in progress
RECURSIVE SumTo(_, _)
SumTo(bag, r) == IF r < 0 THEN 0 ELSE bag[r] + SumTo(bag, r - 1)
Total(bag) == SumTo(bag, AfterErrorDelay)

\* the step delivers an execute-capture to the hub, which answers with
\* capture-started or with the not-ready error
ExecuteCaptureHandled ==
  /\ Len(log'[Kiosk]) = Len(log[Kiosk]) + 1
  /\ Last(log'[Kiosk]) \in {<<"capture-started">>, ErrorEvent(NotReadyMsg)}

\* C35: capturePhoto is guarded against re-entry: a countdown starts only
\* in a step that finds isCapturing false and sets it, one countdown per
\* call and without an execute-capture in that step; while isCapturing is
\* true no countdown starts; and an execute-capture is emitted exactly when
\* one countdown has run out, one per countdown.
C35_CaptureGuarded ==
  [][/\ Total(countdowns') > Total(countdowns) =>
          /\ ~appCapturing /\ appCapturing'
          /\ countdowns' = Set(countdowns, CountdownTime)
          /\ ~ExecuteCaptureHandled
     /\ ExecuteCaptureHandled <=>
          /\ countdowns[0] > 0
          /\ countdowns' = [countdowns EXCEPT ![0] = @ - 1]]_vars

\* an accepted capturePhoto has emitted its execute-capture and the photo
\* arrived; the capturePhoto call of a retake was then turned away
C35_Witness ==
  /\ Len(log[Kiosk]) > 0
  /\ Last(log[Kiosk])[1] = "capture-complete"
  /\ Count(log[Kiosk], "capture-started") = 1
  /\ currentPhotoPath = Null
  /\ appCapturing
  /\ ~Pending(countdowns)

\* the capture loops that have not ended
RunningLoops == {l \in Loops : loops[l] \in {"frame", "sleep"}}

\* C36: in the live-view poller at most one capture loop runs at any time,
\* for every interleaving of start and stop calls.
C36_OneCaptureLoop == Cardinality(RunningLoops) <= 1

\* C37: prepareImageForPrint never deletes its source image: every image
\* that was on disk when the controller was created, with or without a .jpg
\* suffix, is still on disk, whatever the outcome of the calls that name it.
C37_SourceKept == \A p \in Sources : Catalog[p].onDisk => p \in files

\* the step hands the job of call id to sendToPrinter
Submitted(id) == phase[id] # "printing" /\ phase'[id] = "printing"

\* C38: when printImage is called more than once for one source path, the
\* derived file of each job is on disk at the moment the job is submitted
\* to the spooler.
C38_FileThereAtSubmission ==
  [][\A id \in Calls : Submitted(id) => JobPath(id) \in files']_vars

\* the step emits stream-started: a timer of a pipeline expires and finds
\* its condition true
StreamStartedEmitted ==
  \E kind \in DOMAIN startedTimers :
    startedTimers'[kind] = startedTimers[kind] - 1 /\ Announces(kind)

\* C39: the lifecycle events of the manager alternate: a stream-started is
\* emitted only when no stream-started has been emitted since the last
\* stream-ended, that is, when the hub's stream-active flag, set by the one
\* event and cleared by the other, is false.
C39_EventsAlternate == [][StreamStartedEmitted => ~isStreamActive]_vars

\* a child that was spawned and has not been sent SIGTERM
RunningPipeline == {p \in Pids : proc[p].state = "running"}

\* C40: a pipeline started after stopStream keeps what it set: while a
\* child of it runs, a reference to that child is not cleared by the timer
\* of an earlier stopStream, and the close event of a child that was
\* stopped does not clear the running flag of a running pipeline.
C40_RestartKeepsPipeline ==
  [][/\ \A p \in RunningPipeline :
          proc'[p].state = "running" =>
            /\ ffmpegProcess = p => ffmpegProcess' = p
            /\ streamProcess = p => streamProcess' = p
     /\ (\E p \in Pids : proc[p].state = "killed" /\ proc'[p].state = "closed") =>
          (RunningPipeline # {} => isStreaming' = isStreaming)]_vars

====
